---------------------------- MODULE Spec2Model ----------------------------
(***************************************************************************)
(* A model of coralcam: the camera controller (hardware/camera.py), the    *)
(* turntable motor (hardware/motor_TMC2209.py), the capture worker         *)
(* CaptureThread and the MainWindow handlers that start and stop it        *)
(* (gui/main_window.py).                                                   *)
(*                                                                         *)
(* The specifications share the variables:                                 *)
(*   Spec          MainWindow with its capture worker                      *)
(*   SpecThread    CaptureThread constructed and started by any caller     *)
(*   SpecCam       the CoralCameras control operations                     *)
(*   SpecProgress  the progress arithmetic of CaptureThread.run, frame by   *)
(*                 frame, for up to MaxProgressImages images               *)
(*   SpecEnhance      frames through the two enhancement pipelines         *)
(*   SpecMotor        Motor.rotation for the steps of a sequence           *)
(*   SpecCapture      a worker that captures one frame, with the control   *)
(*                    operations                                           *)
(*   SpecAuto         the preview with the enhancement controls of a widget*)
(*   SpecConstruction the construction of the window and the controller    *)
(*   SpecLive         the window and its worker under fair scheduling      *)
(*   SpecRace         apply_image_enhancement statement by statement, with *)
(*                    the controls changing under it                       *)
(***************************************************************************)
EXTENDS Integers, Sequences, FiniteSets, TLC

VARIABLES
    \* CoralCameras
    cameras,               \* keys of self.cameras: the configured camera ids
    ExposureTime,          \* self.ExposureTime, microseconds
    AnalogueGain,          \* self.AnalogueGain, in tenths
    enhancement_settings,  \* self.enhancement_settings: camera id -> dict
    picam,                 \* the Picamera2 devices: controls applied, stream started
    last_call,             \* the last control operation called on CoralCameras
    n_ops,                 \* how many control operations were called
    \* CaptureThread
    capture_thread,        \* MainWindow.capture_thread: "None" or "CaptureThread"
    pc,                    \* the statement of run() the worker is at
    num_images,            \* self.num_images
    image,                 \* the loop variable of run()
    current_capture,       \* current_capture of run()
    rotation_step,         \* rotation_step of run(): the double nearest num/den
    cams_left,             \* the cameras capture_enhanced has still to visit
    output_dir,            \* the directory self.output_dir on disk
    raised_by,             \* what raised the exception that ended run(), if any
    \* hardware and what was asked of it
    motor_moving,          \* the stepper is executing a move
    capturing,             \* the cameras that are inside a still capture
    rot_log,               \* the rotation_step of every Motor.rotation call
    cap_log,               \* every still capture call: image, camera, result
    frame_trace,           \* the events of the frame the worker is in
    signals,               \* signals emitted by the worker, not yet delivered
    emitted,               \* every signal the worker emitted
    \* MainWindow
    start_capture_btn,     \* start_capture_btn.isEnabled()
    progress_bar,          \* progress_bar: visible, value
    status_label,          \* status_label text
    msg,                   \* the last QMessageBox shown
    widgets,               \* the enhancement controls of each CameraWidget
    gui,                   \* "running", "closeEvent" (in wait()), "closed", "aborted"
    sequences,             \* how many CaptureThreads the window has started
    quit_at,               \* frames started when closeEvent called quit(), or -1
    feed,                  \* the cameras update_camera_feeds has still to read;
                           \* the first is inside its capture_array("lores")
    \* what the hardware was asked, in more detail
    wait_log,              \* every shutter wait of capture_enhanced
    revs_log,              \* every run_to_position_revolutions, in 1/100 rev
    \* image enhancement
    image_in,              \* a frame as the camera delivered it
    enhanced               \* the frame after the enhancement calls made on it

camvars == <<cameras, ExposureTime, AnalogueGain, enhancement_settings, picam>>
opvars == <<last_call, n_ops>>
threadvars == <<capture_thread, pc, num_images, image, current_capture,
                rotation_step, cams_left, output_dir, raised_by>>
hwvars == <<motor_moving, capturing, rot_log, cap_log, frame_trace>>
sigvars == <<signals, emitted>>
guivars == <<start_capture_btn, progress_bar, status_label, msg, widgets, gui,
             sequences, quit_at>>
auxvars == <<feed, wait_log, revs_log, image_in, enhanced>>
vars == <<camvars, opvars, threadvars, hwvars, sigvars, guivars, auxvars>>

-----------------------------------------------------------------------------
(* Bounds of the model *)

\* the largest num_images a sequence is started with
MaxImages == 4
\* the largest total_captures of the progress arithmetic
MaxProgressImages == 50
\* the largest value of num_images_spin the window starts a sequence with
MaxSpinImages == 2
\* how many sequences the window starts
MaxSequences == 2
\* how many control operations SpecCam calls
MaxOps == 2

-----------------------------------------------------------------------------
(***************************************************************************)
(* IEEE 754 double arithmetic, as far as the program uses it.  A double is *)
(* [m, e]: m its 53 significand bits, most significant first and leading   *)
(* bit 1, and e the exponent of the leading bit; its value is              *)
(* m * 2^(e - 52).  Quotients and products are rounded to nearest, ties to *)
(* even.                                                                   *)
(***************************************************************************)
MantissaBits == 53

RECURSIVE PowMod2(_, _)
\* 2^i modulo m, by repeated squaring
PowMod2(i, m) ==
    IF i = 0 THEN 1 % m
    ELSE LET h == PowMod2(i \div 2, m)
         IN  (((h * h) % m) * (IF i % 2 = 1 THEN 2 ELSE 1)) % m

\* what is left of r / d after n >= 1 quotient bits, in units of 1/(2d) of the
\* last bit, for 0 <= r < 2d
DivRem(r, d, n) == 2 * (((r % d) * PowMod2(n - 1, d)) % d)

\* n quotient bits of r / d, for 0 <= r < 2d: the first is the integer part
DivBits(r, d, n) ==
    [i \in 1..n |->
        IF i = 1 THEN (IF r >= d THEN 1 ELSE 0)
        ELSE IF DivRem(r, d, i - 1) >= d THEN 1 ELSE 0]

\* the bit string plus one (one bit longer when it was all ones)
IncBits(bits) ==
    LET zeros == {i \in 1..Len(bits) : bits[i] = 0}
    IN  IF zeros = {} THEN <<1>> \o [i \in 1..Len(bits) |-> 0]
        ELSE LET j == CHOOSE i \in zeros : \A k \in zeros : k <= i
             IN  [i \in 1..Len(bits) |->
                    IF i < j THEN bits[i] ELSE IF i = j THEN 1 ELSE 0]

RECURSIVE Pow2(_)
Pow2(n) == IF n = 0 THEN 1 ELSE 2 * Pow2(n - 1)

RECURSIVE IntOfBits(_, _, _)
\* the number that bits lo..hi of a bit string denote
IntOfBits(bits, lo, hi) ==
    IF hi < lo THEN 0 ELSE 2 * IntOfBits(bits, lo, hi - 1) + bits[hi]

\* the w binary digits of a number below 2^w
LimbBits(n, w) == [i \in 1..w |-> (n \div Pow2(w - i)) % 2]

\* the 53-bit string times the number c < 128: 60 bits, computed in limbs of 13 bits
MulBits(bits, c) ==
    LET p0 == IntOfBits(bits, 41, 53) * c
        p1 == IntOfBits(bits, 28, 40) * c + p0 \div 8192
        p2 == IntOfBits(bits, 15, 27) * c + p1 \div 8192
        p3 == IntOfBits(bits, 2, 14) * c + p2 \div 8192
        p4 == bits[1] * c + p3 \div 8192
    IN  LimbBits(p4, 8) \o LimbBits(p3 % 8192, 13) \o LimbBits(p2 % 8192, 13)
            \o LimbBits(p1 % 8192, 13) \o LimbBits(p0 % 8192, 13)

\* the bit string without its leading zeros
StripZeros(bits) ==
    LET ones == {i \in 1..Len(bits) : bits[i] = 1}
    IN  IF ones = {} THEN <<>>
        ELSE SubSeq(bits, CHOOSE i \in ones : \A k \in ones : i <= k, Len(bits))

\* the bits after the first one are all 0
TailIsZero(bits) == \A i \in 2..Len(bits) : bits[i] = 0

\* round a bit string with leading 1 and exponent e to 53 bits, nearest-even;
\* sticky says that nonzero digits follow the string
RoundBits(bits, e, sticky) ==
    LET keep == SubSeq(bits, 1, MantissaBits)
        rest == SubSeq(bits, MantissaBits + 1, Len(bits))
        up   == /\ rest # <<>>
                /\ rest[1] = 1
                /\ \/ ~TailIsZero(rest)
                   \/ sticky
                   \/ keep[MantissaBits] = 1
        inc  == IncBits(keep)
    IN  IF ~up THEN [m |-> keep, e |-> e]
        ELSE IF Len(inc) > MantissaBits
             THEN [m |-> SubSeq(inc, 1, MantissaBits), e |-> e + 1]
             ELSE [m |-> inc, e |-> e]

RECURSIVE Log2Floor(_, _)
\* the largest t with d * 2^t <= a, for a >= d > 0
Log2Floor(a, d) == IF 2 * d <= a THEN 1 + Log2Floor(a, 2 * d) ELSE 0

RECURSIVE Log2Ceil(_, _)
\* the smallest s with a * 2^s >= d, for 0 < a
Log2Ceil(a, d) == IF a >= d THEN 0 ELSE 1 + Log2Ceil(2 * a, d)

\* the double a / b of two small positive integers
fdiv(a, b) ==
    LET t == IF a >= b THEN Log2Floor(a, b) ELSE 0
        s == IF a >= b THEN 0 ELSE Log2Ceil(a, b)
        r == a * Pow2(s)
        d == b * Pow2(t)
        bits == DivBits(r, d, MantissaBits + 1)
        rem  == DivRem(r, d, MantissaBits + 1)
    IN  RoundBits(bits, t - s, rem # 0)

\* the double x * c, for a double x > 0 and a small positive integer c
fmul(x, c) ==
    LET p == StripZeros(MulBits(x.m, c))
    IN  RoundBits(p, x.e + (Len(p) - MantissaBits), FALSE)

\* int(x) of a double x > 0 below 2^30: truncation
ftrunc(x) == IF x.e < 0 THEN 0 ELSE IntOfBits(x.m, 1, x.e + 1)

\* the double x / c, for a double x > 0 and an integer 0 < c < 2^17: the
\* significand with 12 zeros after it is divided in limbs of 13 bits
fdivc(x, c) ==
    LET n4 == IntOfBits(x.m, 1, 1)
        n3 == (n4 % c) * 8192 + IntOfBits(x.m, 2, 14)
        n2 == (n3 % c) * 8192 + IntOfBits(x.m, 15, 27)
        n1 == (n2 % c) * 8192 + IntOfBits(x.m, 28, 40)
        n0 == (n1 % c) * 8192 + IntOfBits(x.m, 41, 53)
        nz == (n0 % c) * 4096
        q  == StripZeros(LimbBits(n4 \div c, 1) \o LimbBits(n3 \div c, 13)
                  \o LimbBits(n2 \div c, 13) \o LimbBits(n1 \div c, 13)
                  \o LimbBits(n0 \div c, 13) \o LimbBits(nz \div c, 12))
    IN  RoundBits(q, x.e - 65 + Len(q), nz % c # 0)

\* a rounding to hundredths that drops what follows them
round2_truncates(x) ==
    LET p    == MulBits(x.m, 100)
        sh   == 52 - x.e
        bits == IF sh > 59 THEN [i \in 1..(sh - 59) |-> 0] \o p ELSE p
        int  == StripZeros(SubSeq(bits, 1, Len(bits) - sh))
    IN  IntOfBits(int, 1, Len(int))

\* round(x, 2) of a double 0 < x < 2^20, in hundredths: x * 100 exactly, then
\* to the nearest integer, a half to the even one
round2(x) ==
    LET p    == MulBits(x.m, 100)            \* 60 bits, in units of 2^(x.e - 52)
        sh   == 52 - x.e                     \* how many of them are fraction
        bits == IF sh > 59 THEN [i \in 1..(sh - 59) |-> 0] \o p ELSE p
        int  == StripZeros(SubSeq(bits, 1, Len(bits) - sh))
        frac == SubSeq(bits, Len(bits) - sh + 1, Len(bits))
        n    == IntOfBits(int, 1, Len(int))
        up   == /\ frac # <<>>
                /\ frac[1] = 1
                /\ (~TailIsZero(frac) \/ n % 2 = 1)
    IN  IF up THEN n + 1 ELSE n

-----------------------------------------------------------------------------
(***************************************************************************)
(* IEEE 754 single arithmetic (np.float32), as far as the enhancement uses *)
(* it.  A single is [neg, m, e]: its value is m * 2^e, negated when neg,   *)
(* with 2^23 <= m < 2^24, or m = 0 for zero.  Results are rounded to       *)
(* nearest, ties to even.  Every product below stays under 2^31.           *)
(***************************************************************************)
F32Zero == [neg |-> FALSE, m |-> 0, e |-> 0]

\* the mantissa q with what follows it rounded in: rem of the divisor den is
\* left over; a mantissa of 2^24 is renormalised
F32Round(neg, q, rem, den, e) ==
    LET up == 2 * rem > den \/ (2 * rem = den /\ q % 2 = 1)
        r  == IF up THEN q + 1 ELSE q
    IN  IF r = 16777216 THEN [neg |-> neg, m |-> 8388608, e |-> e + 1]
        ELSE [neg |-> neg, m |-> r, e |-> e]

\* np.float32(n) for an integer n, |n| < 2^24: exact
F32OfInt(n) ==
    LET a == IF n < 0 THEN -n ELSE n
    IN  IF a = 0 THEN F32Zero
        ELSE LET k == Log2Floor(a, 1)
             IN  [neg |-> n < 0, m |-> a * Pow2(23 - k), e |-> k - 23]

\* the single nearest a / b, for integers 0 <= a < 2^8 and 0 < b < 2^8
F32Ratio(a, b) ==
    IF a = 0 THEN F32Zero
    ELSE LET t  == IF a >= b THEN Log2Floor(a, b) ELSE 0
             s  == IF a >= b THEN 0 ELSE Log2Ceil(a, b)
             r  == a * Pow2(s)                \* d <= r < 2d
             d  == b * Pow2(t)
             q1 == (r * 2048) \div d          \* the first 12 quotient bits
             r1 == (r * 2048) % d
             q2 == (r1 * 4096) \div d         \* the next 12
             r2 == (r1 * 4096) % d
         IN  F32Round(FALSE, q1 * 4096 + q2, r2, d, (t - s) - 23)

\* x * y in single precision: the 48-bit product of the mantissas in limbs
\* of 12 bits, rounded to 24 bits
F32Mul(x, y) ==
    IF x.m = 0 \/ y.m = 0 THEN F32Zero
    ELSE LET a1  == x.m \div 4096
             a0  == x.m % 4096
             b1  == y.m \div 4096
             b0  == y.m % 4096
             mid == a1 * b0 + a0 * b1
             low == a0 * b0 + (mid % 4096) * 4096
             lo  == low % 16777216
             hi  == a1 * b1 + mid \div 4096 + low \div 16777216
             neg == x.neg # y.neg
         IN  IF hi >= 8388608
             THEN F32Round(neg, hi, lo, 16777216, x.e + y.e + 24)
             ELSE F32Round(neg, 2 * hi + lo \div 8388608, lo % 8388608,
                           8388608, x.e + y.e + 23)

\* the integer part of |x|, for |x| < 2^24
F32Floor(x) ==
    IF x.m = 0 \/ x.e < -30 THEN 0
    ELSE IF x.e < 0 THEN x.m \div Pow2(-x.e)
    ELSE x.m * Pow2(x.e)

\* x >= n for an integer n >= 0
F32GeInt(x, n) == IF x.neg THEN n = 0 /\ x.m = 0 ELSE F32Floor(x) >= n

\* np.clip(x, lo, hi) for integers 0 <= lo <= hi
F32Clip(x, lo, hi) ==
    IF x.neg \/ ~F32GeInt(x, lo) THEN F32OfInt(lo)
    ELSE IF F32GeInt(x, hi) THEN F32OfInt(hi)
    ELSE x

\* x + n in single precision, for |x| < 2^9 with x.e >= -23 and an integer
\* |n| <= 100: the exact sum in units of 2^x.e, rounded to 24 bits
F32AddInt(x, n) ==
    IF x.m = 0 THEN F32OfInt(n)
    ELSE IF x.e >= 0 THEN F32OfInt((IF x.neg THEN -1 ELSE 1) * x.m * Pow2(x.e) + n)
    ELSE LET sum == (IF x.neg THEN -x.m ELSE x.m) + n * Pow2(-x.e)
             a   == IF sum < 0 THEN -sum ELSE sum
             k   == IF a = 0 THEN 0 ELSE Log2Floor(a, 1) - 23
         IN  IF a = 0 THEN F32Zero
             ELSE IF k <= 0 THEN [neg |-> sum < 0, m |-> a * Pow2(-k), e |-> x.e + k]
             ELSE F32Round(sum < 0, a \div Pow2(k), a % Pow2(k), Pow2(k), x.e + k)

\* a conversion to uint8 that rounds to the nearest integer
F32ToUint8_nearest(x) ==
    IF x.m # 0 /\ x.e < 0 /\ x.e >= -24
          /\ 2 * (x.m % Pow2(-x.e)) >= Pow2(-x.e)
    THEN F32Floor(x) + 1 ELSE F32Floor(x)

\* astype(np.uint8) of a single in 0..255: the fraction is dropped
F32ToUint8(x) == F32Floor(x)

-----------------------------------------------------------------------------
(* CaptureThread.run: the arithmetic *)

\* round(100 * cur / total), halves to the even neighbour as Python's round()
progress_percent_round(cur, total) ==
    LET q == (200 * cur + total) \div (2 * total)
    IN  IF (200 * cur + total) % (2 * total) = 0 /\ q % 2 = 1 THEN q - 1 ELSE q

\* progress_percent = int((current_capture / total_captures) * 100)
progress_percent(cur, total) == ftrunc(fmul(fdiv(cur, total), 100))

-----------------------------------------------------------------------------
(* CoralCameras: construction *)

\* the devices __init__ may open: Picamera2(0), and Picamera2(1) when present
CameraIds == {0, 1}

\* config['controls']: what setup() configures each device with
ConfigExposureTime == 3500
ConfigAnalogueGain == 15

\* the values __init__ tracks for each camera
InitExposureTime == 20000
InitAnalogueGain == 10

\* the enhancement dict __init__ gives each camera (gamma and contrast in tenths)
DefaultEnhancement ==
    [enabled |-> FALSE, remove_black_background |-> TRUE, black_threshold |-> 15,
     lower_limit |-> 0, upper_limit |-> 255, gamma |-> 10, contrast |-> 10,
     brightness |-> 0, denoise |-> FALSE, sharpen |-> FALSE]

\* the values the enhancement controls of a CameraWidget are built with
DefaultWidget ==
    [enabled |-> FALSE, lower_limit |-> 0, upper_limit |-> 255, gamma |-> 10,
     contrast |-> 10, brightness |-> 0]

\* self.ALL_CAMERAS as the list a for loop visits: the keys in insertion order
ALL_CAMERAS == IF 1 \in cameras THEN <<0, 1>> ELSE <<0>>

\* CoralCameras() followed by setup(), with the cameras cams present
InitCameras(cams) ==
    /\ cameras = cams
    /\ ExposureTime = [k \in cams |-> InitExposureTime]
    /\ AnalogueGain = [k \in cams |-> InitAnalogueGain]
    /\ enhancement_settings = [k \in cams |-> DefaultEnhancement]
    /\ picam = [k \in cams |->
                  [ExposureTime |-> ConfigExposureTime,
                   AnalogueGain |-> ConfigAnalogueGain,
                   AfMode |-> "Auto", LensPosition |-> 0, started |-> TRUE]]
    /\ last_call = [op |-> "none", arg |-> [kind |-> "None", ids |-> <<>>],
                    settings |-> <<>>, device_calls |-> 0, raised |-> "None"]
    /\ n_ops = 0

\* no CaptureThread was constructed yet
InitThread ==
    /\ capture_thread = "None"
    /\ pc = "none"
    /\ num_images = 0
    /\ image = 0
    /\ current_capture = 0
    /\ rotation_step = [num |-> 0, den |-> 1]
    /\ cams_left = <<>>
    /\ output_dir = "present"
    /\ raised_by = "None"

InitHardware ==
    /\ motor_moving = FALSE
    /\ capturing = {}
    /\ rot_log = <<>>
    /\ cap_log = <<>>
    /\ frame_trace = <<>>
    /\ signals = <<>>
    /\ emitted = <<>>

\* the frame img before any enhancement call was made on it: camera and
\* preview are what the calls of CoralCameras and of CameraWidget made of it so
\* far, n_ how many calls there were, off_ how many of them found the
\* enhancement disabled, s_ the settings of the last one, held the dicts the
\* camera of the frame held while a call of CoralCameras read them statement
\* by statement
NotEnhanced(img) ==
    [camera |-> img, preview |-> img, n_camera |-> 0, n_preview |-> 0,
     off_camera |-> 0, off_preview |-> 0, s_camera |-> DefaultEnhancement,
     s_preview |-> DefaultWidget, raised |-> "None", held |-> <<>>]

\* nothing was captured, rotated, previewed or enhanced yet
InitAux ==
    /\ feed = <<>>
    /\ wait_log = <<>>
    /\ revs_log = <<>>
    /\ image_in = <<>>
    /\ enhanced = NotEnhanced(<<>>)

\* MainWindow() after setup_ui() and setup_timer()
InitWindow ==
    /\ start_capture_btn = TRUE
    /\ progress_bar = [visible |-> FALSE, value |-> 0]
    /\ status_label = "System Ready"
    /\ msg = "None"
    /\ widgets = [k \in cameras |-> DefaultWidget]
    /\ gui = "running"
    /\ sequences = 0
    /\ quit_at = -1

Init ==
    /\ \E cams \in {{0}, CameraIds} : InitCameras(cams)
    /\ InitThread
    /\ InitHardware
    /\ InitWindow
    /\ InitAux

-----------------------------------------------------------------------------
(* CoralCameras._get_cameras *)

\* the cameras argument of an operation: None, an int or a list
NoneArg == [kind |-> "None", ids |-> <<>>]
IntArg(c) == [kind |-> "int", ids |-> <<c>>]

InCameras(c) == c \in cameras

\* the list comprehension without its filter
_get_cameras_unfiltered(arg) ==
    IF arg.kind = "None" THEN ALL_CAMERAS ELSE arg.ids

_get_cameras(arg) ==
    SelectSeq(IF arg.kind = "None" THEN ALL_CAMERAS ELSE arg.ids, InCameras)

-----------------------------------------------------------------------------
(***************************************************************************)
(* The enhancement pipeline.  An image is a sequence of pixels, a pixel a  *)
(* triple of channel values 0..255.  gamma and contrast are in tenths.     *)
(* The gamma stage is modelled for gamma 1.0 (skipped) and 0 (1.0 / gamma  *)
(* raises), the contrast stage for contrast 1.0 (skipped); the denoise and *)
(* sharpen filters of OpenCV are modelled switched off.                    *)
(***************************************************************************)

\* camera.py 4-8: main_window.py imports cv2 unconditionally, so the program
\* only runs where the import in camera.py succeeded
OPENCV_AVAILABLE == TRUE

\* an enhancement that never looks at the flag
is_enabled_always(settings) == TRUE

\* camera.py 105, main_window.py 385: the 'enabled' entry, the checkbox
is_enabled(settings) == settings.enabled

\* camera.py 112-115: a pixel with every channel <= threshold becomes black
remove_black(px, settings) ==
    IF settings.remove_black_background
          /\ \A c \in 1..3 : px[c] <= settings.black_threshold
    THEN <<0, 0, 0>> ELSE px

\* camera.py 121: np.clip((enhanced - lower) * (255.0 / (upper - lower)), 0, 255)
\* for a channel value v; the Python float 255.0 / (upper - lower) becomes a
\* single when it meets the float32 array
levels_camera(v, lower, upper) ==
    F32Clip(F32Mul(F32OfInt(v - lower), F32Ratio(255, upper - lower)), 0, 255)

\* main_window.py 396-397: np.clip(enhanced, lower, upper), then
\* (enhanced - lower) / (upper - lower) * 255.0
levels_preview(v, lower, upper) ==
    LET clipped == IF v < lower THEN lower ELSE IF v > upper THEN upper ELSE v
    IN  F32Mul(F32Ratio(clipped - lower, upper - lower), F32OfInt(255))

\* camera.py 124-136, main_window.py 400-412: gamma, contrast and brightness
\* of one channel, then the final np.clip(enhanced, 0, 255).astype(np.uint8)
finish_channel(x, settings) ==
    LET g == CASE settings.gamma = 10 -> x
        c == CASE settings.contrast = 10 -> g
        b == IF settings.brightness # 0 THEN F32AddInt(c, settings.brightness)
             ELSE c
    IN  F32ToUint8(F32Clip(b, 0, 255))

\* camera.py 100-149: apply_image_enhancement(image, camera_id) with the
\* settings of that camera; the result, or the exception it raises
apply_image_enhancement(img, settings) ==
    IF ~OPENCV_AVAILABLE THEN [raised |-> "None", image |-> img]
    ELSE IF ~is_enabled(settings) THEN [raised |-> "None", image |-> img]
    ELSE IF settings.gamma = 0 THEN [raised |-> "ZeroDivisionError", image |-> img]
    ELSE [raised |-> "None",
          image |->
            [i \in 1..Len(img) |->
                LET px == remove_black(img[i], settings)
                IN  [c \in 1..3 |->
                        finish_channel(
                            IF settings.upper_limit > settings.lower_limit
                            THEN levels_camera(px[c], settings.lower_limit,
                                               settings.upper_limit)
                            ELSE F32OfInt(px[c]),
                            settings)]]]

\* main_window.py 383-417: CameraWidget.apply_image_enhancement(image) with
\* the values of the controls of the widget
widget_apply_image_enhancement(img, w) ==
    IF ~is_enabled(w) THEN [raised |-> "None", image |-> img]
    ELSE IF w.gamma = 0 THEN [raised |-> "ZeroDivisionError", image |-> img]
    ELSE [raised |-> "None",
          image |->
            [i \in 1..Len(img) |->
                [c \in 1..3 |->
                    finish_channel(
                        IF w.upper_limit > w.lower_limit
                        THEN levels_preview(img[i][c], w.lower_limit,
                                            w.upper_limit)
                        ELSE F32OfInt(img[i][c]),
                        w)]]]

\* cv2.cvtColor(frame, cv2.COLOR_RGB2GRAY) of one 8-bit pixel: OpenCV's fixed
\* point weights of red, green and blue over 2^14, rounded
Gray(px) == (px[1] * 4899 + px[2] * 9617 + px[3] * 1868 + 8192) \div 16384

\* np.cumsum(hist)[k]: how many pixels are no brighter than k
cumsum(img, k) == Cardinality({i \in 1..Len(img) : Gray(img[i]) <= k})

\* the first index whose cumsum reaches pct percent of the pixels (364-367,
\* camera.py 189-190); the products with 0.01 and 0.99 are not whole numbers
\* for a frame of fewer than 100 pixels, so rounding cannot change the result
percentile(img, pct) ==
    CHOOSE k \in 0..255 :
        /\ 100 * cumsum(img, k) >= pct * Len(img)
        /\ \A j \in 0..(k - 1) : 100 * cumsum(img, j) < pct * Len(img)

-----------------------------------------------------------------------------
(* CaptureThread.run *)

\* rotation_step = 360.0 / num_images if num_images > 0 else 0
rotation_step_of(n) ==
    IF n > 0 THEN [num |-> 360, den |-> n] ELSE [num |-> 0, den |-> 1]

\* a loop that stops one pass early
range_off_by_one(n) == 0..(n - 2)

\* range(num_images)
range(n) == 0..(n - 1)

\* a loop body that rotates before it captures
LoopBody_rotate_first == <<"sleep", "rotation", "capture_enhanced", "emit_progress">>

\* the statements of the loop body, in the order run() executes them
LoopBody == <<"sleep", "capture_enhanced", "emit_progress", "rotation">>

\* the statement after statement s of the loop body: the next one, or the loop head
NextStmt(s) ==
    LET i == CHOOSE j \in 1..Len(LoopBody) : LoopBody[j] = s
    IN  IF i = Len(LoopBody) THEN "for" ELSE LoopBody[i + 1]

\* statement s of the loop body is done
Goto(s) ==
    /\ pc' = NextStmt(s)
    /\ image' = IF NextStmt(s) = "for" THEN image + 1 ELSE image

Event(name, cams) == [ev |-> name, cam |-> cams]

Signal(name, v) == [name |-> name, value |-> v]

\* signal.emit(): queued to the thread of the receiver
Emit(sig) ==
    /\ signals' = Append(signals, sig)
    /\ emitted' = Append(emitted, sig)

\* a start_capture_sequence without its isRunning() check
isRunning_never == FALSE

\* QThread.isRunning(): from start() until run() has ended

isRunning == pc \notin {"none", "finished", "raised"}

\* an exception leaves run(): the thread ends; PyQt either only reports it or
\* aborts the process (qFatal), depending on its version
RaiseInRun(by) ==
    /\ pc' = "raised"
    /\ raised_by' = by
    /\ gui' \in {gui} \cup (IF gui \in {"running", "closeEvent"} THEN {"aborted"} ELSE {})
    /\ UNCHANGED <<start_capture_btn, progress_bar, status_label, msg, widgets,
                   sequences, quit_at>>

\* lines 488-494: create the directory, initialise the locals
Thread_mkdir ==
    /\ gui # "aborted"
    /\ pc = "mkdir"
    /\ \/ /\ output_dir = "unwritable"
          /\ RaiseInRun("mkdir")
          /\ UNCHANGED <<capture_thread, num_images, image, current_capture,
                         rotation_step, cams_left, output_dir>>
       \/ /\ output_dir # "unwritable"
          /\ output_dir' = "present"
          /\ current_capture' = 0
          /\ rotation_step' = rotation_step_of(num_images)
          /\ pc' = "for"
          /\ UNCHANGED <<capture_thread, num_images, image, cams_left, raised_by>>
          /\ UNCHANGED guivars
    /\ UNCHANGED <<camvars, opvars, hwvars, sigvars>>
    /\ UNCHANGED auxvars

\* line 496: for image in range(self.num_images)
Thread_for ==
    /\ gui # "aborted"
    /\ pc = "for"
    /\ \/ /\ image \in range(num_images)
          /\ pc' = LoopBody[1]
          /\ frame_trace' = <<>>
       \/ /\ image \notin range(num_images)
          /\ pc' = "emit_finished"
          /\ UNCHANGED frame_trace
    /\ UNCHANGED <<capture_thread, num_images, image, current_capture,
                   rotation_step, cams_left, output_dir, raised_by>>
    /\ UNCHANGED <<motor_moving, capturing, rot_log, cap_log>>
    /\ UNCHANGED <<camvars, opvars, sigvars, guivars>>
    /\ UNCHANGED auxvars

\* line 500: time.sleep(self.delay)
Thread_sleep ==
    /\ gui # "aborted"
    /\ pc = "sleep"
    /\ frame_trace' = Append(frame_trace, Event("wait", {}))
    /\ Goto("sleep")
    /\ UNCHANGED <<capture_thread, num_images, current_capture, rotation_step,
                   cams_left, output_dir, raised_by>>
    /\ UNCHANGED <<motor_moving, capturing, rot_log, cap_log>>
    /\ UNCHANGED <<camvars, opvars, sigvars, guivars>>
    /\ UNCHANGED auxvars

\* line 501, camera.py 219-224: capture_enhanced is called and lists the cameras
Thread_capture_enhanced ==
    /\ gui # "aborted"
    /\ pc = "capture_enhanced"
    /\ cams_left' = _get_cameras(NoneArg)
    /\ pc' = "for_cam"
    /\ UNCHANGED <<capture_thread, num_images, image, current_capture,
                   rotation_step, output_dir, raised_by>>
    /\ UNCHANGED <<camvars, opvars, hwvars, sigvars, guivars>>
    /\ UNCHANGED auxvars

\* delay=5 of capture_enhanced, which run() does not pass
DefaultDelay == 5

\* a wait that reads the exposure of the first camera for every camera
shutter_us_first(cam) == ExposureTime[Head(ALL_CAMERAS)]

\* camera.py 229: shutter_s = self.ExposureTime[cam] * 1e-6, in microseconds
shutter_us(cam) == ExposureTime[cam]

\* camera.py 229-230: time.sleep(shutter_s * (delay + 1)) for camera cam, with
\* the exposure the device of cam has at that moment
ShutterWait(cam, delay) ==
    [cam |-> cam, exposure_us |-> shutter_us(cam),
     slept_us |-> shutter_us(cam) * (delay + 1),
     tracked |-> ExposureTime,
     device_us |-> picam[cam].ExposureTime]

\* camera.py 224-234: the next camera: the shutter delay, then the device is asked
\* for a frame; or the loop is over and capture_enhanced returns
Thread_for_cam ==
    /\ gui # "aborted"
    /\ pc = "for_cam"
    /\ \/ /\ cams_left # <<>>
          /\ wait_log' = Append(wait_log, ShutterWait(Head(cams_left), DefaultDelay))
          /\ capturing' = capturing \cup {Head(cams_left)}
          /\ frame_trace' = Append(frame_trace, Event("capture", {Head(cams_left)}))
          /\ pc' = "capture_array"
          /\ UNCHANGED image
       \/ /\ cams_left = <<>>
          /\ Goto("capture_enhanced")
          /\ UNCHANGED <<capturing, frame_trace, wait_log>>
    /\ UNCHANGED <<capture_thread, num_images, current_capture, rotation_step,
                   cams_left, output_dir, raised_by>>
    /\ UNCHANGED <<motor_moving, rot_log, cap_log>>
    /\ UNCHANGED <<camvars, opvars, sigvars, guivars>>
    /\ UNCHANGED <<feed, revs_log, image_in, enhanced>>

\* a try around the whole loop: a failure would leave the loop
remaining_cameras_try_outside(result, left) ==
    IF result = "missing" THEN <<>> ELSE Tail(left)

\* camera.py 224-250: the try is inside the loop over the cameras, so the loop
\* goes on with the next camera whatever the result
remaining_cameras(result, left) == Tail(left)

\* one camera of capture_enhanced is done with the given result
CameraDone(result) ==
    /\ cap_log' = Append(cap_log,
                         [image |-> image, cam |-> Head(cams_left), result |-> result])
    /\ capturing' = capturing \ {Head(cams_left)}
    /\ cams_left' = remaining_cameras(result, cams_left)
    /\ pc' = "for_cam"

\* the frame a stream of a camera delivers, for a still or for the preview
StillFrame == <<(<<7, 7, 7>>), (<<15, 16, 15>>), (<<7, 0, 200>>), (<<50, 200, 237>>)>>

\* camera.py 234-250: the device call ends.  A frame is enhanced and written
\* (236-241), unless the enhancement raises, which the except at 249 catches
\* as it catches an exception of the device; None is reported at 243.
Thread_capture_array ==
    /\ gui # "aborted"
    /\ pc = "capture_array"
    /\ \/ LET settings == enhancement_settings[Head(cams_left)]
              r == apply_image_enhancement(StillFrame, settings)
          IN  /\ image_in' = [cam |-> Head(cams_left), image |-> StillFrame]
              /\ enhanced' = [NotEnhanced(StillFrame) EXCEPT
                                  !.camera = r.image,
                                  !.raised = r.raised,
                                  !.n_camera = 1,
                                  !.off_camera = IF settings.enabled THEN 0 ELSE 1,
                                  !.s_camera = settings]
              /\ CameraDone(IF r.raised = "None" THEN "saved" ELSE "missing")
       \/ /\ image_in' = <<>>
          /\ enhanced' = NotEnhanced(<<>>)
          /\ CameraDone("missing")
    /\ UNCHANGED <<capture_thread, num_images, image, current_capture,
                   rotation_step, output_dir, raised_by>>
    /\ UNCHANGED <<motor_moving, rot_log, frame_trace>>
    /\ UNCHANGED <<camvars, opvars, sigvars, guivars>>
    /\ UNCHANGED <<feed, wait_log, revs_log>>

\* lines 503-505: current_capture += 1, progress_percent, progress.emit
CountAndEmit ==
    /\ current_capture' = current_capture + 1
    /\ Emit(Signal("progress", progress_percent(current_capture + 1, num_images)))

\* lines 503-505: count the frame and emit the progress
Thread_emit_progress ==
    /\ gui # "aborted"
    /\ pc = "emit_progress"
    /\ CountAndEmit
    /\ frame_trace' = Append(frame_trace, Event("progress", {}))
    /\ Goto("emit_progress")
    /\ UNCHANGED <<capture_thread, num_images, rotation_step, cams_left,
                   output_dir, raised_by>>
    /\ UNCHANGED <<motor_moving, capturing, rot_log, cap_log>>
    /\ UNCHANGED <<camvars, opvars, guivars>>
    /\ UNCHANGED auxvars

\* Motor(gear_ratio=5), which MainWindow constructs with the default
gear_ratio == 5

\* a move of degrees / gear_ratio instead
rotation_divides(degrees) == round2(fdivc(fdivc(degrees, gear_ratio), 360))

\* motor_TMC2209.py 35: revs = round(self.gear_ratio * degrees / 360.0, 2), in
\* hundredths of a revolution, for a double degrees > 0
rotation(degrees) == round2(fdivc(fmul(degrees, gear_ratio), 360))

\* line 507, motor_TMC2209.py 34-36: Motor.rotation commands the move
Thread_rotation ==
    /\ gui # "aborted"
    /\ pc = "rotation"
    /\ rot_log' = Append(rot_log, rotation_step)
    /\ revs_log' = Append(revs_log,
                          rotation(fdiv(rotation_step.num, rotation_step.den)))
    /\ motor_moving' = TRUE
    /\ frame_trace' = Append(frame_trace, Event("rotation", {}))
    /\ pc' = "run_to_position"
    /\ UNCHANGED <<capture_thread, num_images, image, current_capture,
                   rotation_step, cams_left, output_dir, raised_by>>
    /\ UNCHANGED <<capturing, cap_log>>
    /\ UNCHANGED <<camvars, opvars, sigvars, guivars>>
    /\ UNCHANGED <<feed, wait_log, image_in, enhanced>>

\* motor_TMC2209.py 36: run_to_position_revolutions ends: the move is done, or
\* the driver raises
Thread_run_to_position ==
    /\ gui # "aborted"
    /\ pc = "run_to_position"
    /\ motor_moving' = FALSE
    /\ \/ /\ Goto("rotation")
          /\ frame_trace' = Append(frame_trace, Event("rotated", {}))
          /\ UNCHANGED raised_by
          /\ UNCHANGED guivars
       \/ /\ RaiseInRun("motor")
          /\ UNCHANGED <<image, frame_trace>>
    /\ UNCHANGED <<capture_thread, num_images, current_capture, rotation_step,
                   cams_left, output_dir>>
    /\ UNCHANGED <<capturing, rot_log, cap_log>>
    /\ UNCHANGED <<camvars, opvars, sigvars>>
    /\ UNCHANGED auxvars

\* line 509: self.finished_capture.emit()
Thread_emit_finished ==
    /\ gui # "aborted"
    /\ pc = "emit_finished"
    /\ Emit(Signal("finished_capture", 0))
    /\ pc' = "return"
    /\ UNCHANGED <<capture_thread, num_images, image, current_capture,
                   rotation_step, cams_left, output_dir, raised_by>>
    /\ UNCHANGED <<camvars, opvars, hwvars, guivars>>
    /\ UNCHANGED auxvars

\* run() returns and the thread ends: isRunning() is false from here on
Thread_return ==
    /\ gui # "aborted"
    /\ pc = "return"
    /\ pc' = "finished"
    /\ UNCHANGED <<capture_thread, num_images, image, current_capture,
                   rotation_step, cams_left, output_dir, raised_by>>
    /\ UNCHANGED <<camvars, opvars, hwvars, sigvars, guivars>>
    /\ UNCHANGED auxvars

\* the directories a request may name
Directories == {"present", "absent", "unwritable"}

\* CaptureThread.__init__ (477-485) and start(): a new worker for num_images = n
NewThread(n, dir) ==
    /\ capture_thread' = "CaptureThread"
    /\ num_images' = n
    /\ output_dir' = dir
    /\ pc' = "mkdir"
    /\ image' = 0
    /\ current_capture' = 0
    /\ rotation_step' = [num |-> 0, den |-> 1]
    /\ cams_left' = <<>>
    /\ raised_by' = "None"
    /\ rot_log' = <<>>
    /\ cap_log' = <<>>
    /\ frame_trace' = <<>>
    /\ emitted' = <<>>
    /\ wait_log' = <<>>
    /\ revs_log' = <<>>
    /\ UNCHANGED <<motor_moving, capturing, signals>>

\* any caller constructs a CaptureThread, with any num_images, and starts it
CaptureThread_start ==
    /\ capture_thread = "None"
    /\ \E n \in -1..MaxImages, dir \in Directories : NewThread(n, dir)
    /\ UNCHANGED <<camvars, opvars, guivars>>
    /\ UNCHANGED <<feed, image_in, enhanced>>

NextThread ==
    \/ CaptureThread_start
    \/ Thread_mkdir
    \/ Thread_for
    \/ Thread_sleep
    \/ Thread_capture_enhanced
    \/ Thread_for_cam
    \/ Thread_capture_array
    \/ Thread_emit_progress
    \/ Thread_rotation
    \/ Thread_run_to_position
    \/ Thread_emit_finished
    \/ Thread_return

SpecThread == Init /\ [][NextThread]_vars

-----------------------------------------------------------------------------
(* CoralCameras: the enhancement settings *)

\* dict.update(settings) replaced by a rebuild from the defaults
update_from_defaults(d, settings) ==
    [k \in DOMAIN DefaultEnhancement \cup DOMAIN settings |->
        IF k \in DOMAIN settings THEN settings[k] ELSE DefaultEnhancement[k]]

\* d.update(settings)
update(d, settings) ==
    [k \in DOMAIN d \cup DOMAIN settings |->
        IF k \in DOMAIN settings THEN settings[k] ELSE d[k]]

\* set_enhancement_settings(camera_id, **settings): the dicts afterwards
set_enhancement_settings(es, camera_id, settings) ==
    IF camera_id \in DOMAIN es
    THEN [es EXCEPT ![camera_id] = update(es[camera_id], settings)]
    ELSE es

-----------------------------------------------------------------------------
(* MainWindow *)

\* the settings dict built from the controls of a CameraWidget
\* (on_enhancement_changed 340-351, start_capture_sequence 690-701)
WidgetSettings(w) ==
    [enabled |-> w.enabled, lower_limit |-> w.lower_limit,
     upper_limit |-> w.upper_limit, gamma |-> w.gamma, contrast |-> w.contrast,
     brightness |-> w.brightness, remove_black_background |-> TRUE,
     black_threshold |-> 15, denoise |-> FALSE, sharpen |-> FALSE]

\* lines 689-702: set_enhancement_settings is called for every widget, each
\* with the id of its own camera
SyncWidgets ==
    [c \in DOMAIN enhancement_settings |->
        IF c \in DOMAIN widgets
        THEN set_enhancement_settings(enhancement_settings, c,
                                      WidgetSettings(widgets[c]))[c]
        ELSE enhancement_settings[c]]

\* how many frames the worker has begun
FramesStarted ==
    IF pc \in {"none", "mkdir"} THEN 0
    ELSE IF pc \in {"for", "emit_finished", "return", "finished"} THEN image
    ELSE IF pc = "raised" /\ raised_by = "mkdir" THEN 0
    ELSE image + 1

\* line 669: self.capture_thread and self.capture_thread.isRunning()
StartRejected == capture_thread # "None" /\ isRunning

\* start_capture_sequence (668-716), the slot of start_capture_btn.clicked (605):
\* a disabled button is not clicked; num_images_spin holds 1..1000 (600)
start_capture_sequence ==
    /\ gui = "running"
    /\ feed = <<>>
    /\ start_capture_btn
    /\ \/ /\ StartRejected
          /\ msg' = "Capture in Progress"
          /\ UNCHANGED <<camvars, opvars, threadvars, hwvars, sigvars>>
          /\ UNCHANGED <<start_capture_btn, progress_bar, status_label, sequences>>
          /\ UNCHANGED <<wait_log, revs_log>>
       \/ /\ ~StartRejected
          /\ sequences < MaxSequences
          /\ sequences' = sequences + 1
          /\ enhancement_settings' = SyncWidgets
          /\ \E n \in 1..MaxSpinImages, dir \in Directories : NewThread(n, dir)
          /\ progress_bar' = [visible |-> TRUE, value |-> 0]
          /\ start_capture_btn' = FALSE
          /\ status_label' = "Capture sequence running..."
          /\ UNCHANGED <<cameras, ExposureTime, AnalogueGain, picam, opvars, msg>>
    /\ UNCHANGED <<widgets, gui, quit_at>>
    /\ UNCHANGED <<feed, image_in, enhanced>>

\* update_progress (718-719), the slot of the progress signal
update_progress ==
    /\ gui = "running"
    /\ feed = <<>>
    /\ signals # <<>>
    /\ Head(signals).name = "progress"
    /\ signals' = Tail(signals)
    /\ progress_bar' = [progress_bar EXCEPT !.value = Head(signals).value]
    /\ UNCHANGED <<start_capture_btn, status_label, msg, widgets, gui,
                   sequences, quit_at>>
    /\ UNCHANGED <<camvars, opvars, threadvars, hwvars, emitted>>
    /\ UNCHANGED auxvars

\* capture_finished (721-725), the slot of the finished_capture signal
capture_finished ==
    /\ gui = "running"
    /\ feed = <<>>
    /\ signals # <<>>
    /\ Head(signals).name = "finished_capture"
    /\ signals' = Tail(signals)
    /\ progress_bar' = [progress_bar EXCEPT !.visible = FALSE]
    /\ start_capture_btn' = TRUE
    /\ status_label' = "Capture sequence completed!"
    /\ msg' = "Capture Complete"
    /\ UNCHANGED <<widgets, gui, sequences, quit_at>>
    /\ UNCHANGED <<camvars, opvars, threadvars, hwvars, emitted>>
    /\ UNCHANGED auxvars

\* CoralCameras.stop() (257-259): every configured stream is stopped
stop_all == [c \in DOMAIN picam |-> [picam[c] EXCEPT !.started = FALSE]]

\* closeEvent (727-735) up to wait(): quit() only asks an event loop to exit, and
\* run() has none, so the call changes nothing in the worker
closeEvent ==
    /\ gui = "running"
    /\ feed = <<>>
    /\ \/ /\ capture_thread # "None" /\ isRunning
          /\ quit_at' = FramesStarted
          /\ gui' = "closeEvent"
          /\ UNCHANGED picam
       \/ /\ ~(capture_thread # "None" /\ isRunning)
          /\ picam' = stop_all
          /\ gui' = "closed"
          /\ UNCHANGED quit_at
    /\ UNCHANGED <<start_capture_btn, progress_bar, status_label, msg, widgets,
                   sequences>>
    /\ UNCHANGED <<cameras, ExposureTime, AnalogueGain, enhancement_settings>>
    /\ UNCHANGED <<opvars, threadvars, hwvars, sigvars>>
    /\ UNCHANGED auxvars

\* a closeEvent whose wait() returns while run() is still running
wait_returns_at_once == TRUE

\* QThread.wait() (730) returns when run() has ended
wait_returns == ~isRunning

\* closeEvent from the return of wait() (730) on: the timer stops (732), the
\* streams of the cameras are stopped (733), the light is switched off (734)
\* and the window is closed (735)
closeEvent_after_wait ==
    /\ gui = "closeEvent"
    /\ wait_returns
    /\ picam' = stop_all
    /\ gui' = "closed"
    /\ UNCHANGED <<start_capture_btn, progress_bar, status_label, msg, widgets,
                   sequences, quit_at>>
    /\ UNCHANGED <<cameras, ExposureTime, AnalogueGain, enhancement_settings>>
    /\ UNCHANGED <<opvars, threadvars, hwvars, sigvars>>
    /\ UNCHANGED auxvars

\* update_camera_feeds (637-647), the slot of the 100 ms timer (629-635): the
\* GUI thread enters capture_array_rgb for the first widget.  The handlers of
\* the GUI thread run one at a time, so the others wait while feed # <<>>.
update_camera_feeds ==
    /\ gui = "running"
    /\ feed = <<>>
    /\ feed' = ALL_CAMERAS
    /\ UNCHANGED <<camvars, opvars, threadvars, hwvars, sigvars, guivars>>
    /\ UNCHANGED <<wait_log, revs_log, image_in, enhanced>>

\* cv2.rotate(frame, cv2.ROTATE_90_COUNTERCLOCKWISE) of a frame of one row:
\* one column, the last pixel on top
rotate(img) == [i \in 1..Len(img) |-> img[Len(img) + 1 - i]]

\* cv2.cvtColor(frame, cv2.COLOR_BGR2RGB): the first and the third channel
\* change places
cvtColor(img) == [i \in 1..Len(img) |-> <<img[i][3], img[i][2], img[i][1]>>]

\* one pass of the loop of update_camera_feeds: capture_array("lores") of the
\* first camera of feed ends.  A frame is enhanced by the camera
\* (camera.py 160-161) and handed to update_frame (419-464), which rotates it,
\* swaps its channels, enhances it with the controls of the widget and shows
\* it; None, or an exception caught at camera.py 165, shows nothing.
update_camera_feeds_frame ==
    /\ feed # <<>>
    /\ feed' = Tail(feed)
    /\ \/ LET cam == Head(feed)
              settings == enhancement_settings[cam]
              r == apply_image_enhancement(StillFrame, settings)
              w == widgets[cam]
              shown == widget_apply_image_enhancement(cvtColor(rotate(r.image)), w)
          IN  IF r.raised = "None"
              THEN /\ image_in' = [cam |-> cam, image |-> StillFrame]
                   /\ enhanced' = [NotEnhanced(StillFrame) EXCEPT
                                       !.camera = r.image,
                                       !.preview = shown.image,
                                       !.n_camera = 1,
                                       !.n_preview = 1,
                                       !.off_camera = IF settings.enabled THEN 0 ELSE 1,
                                       !.off_preview = IF w.enabled THEN 0 ELSE 1,
                                       !.s_camera = settings,
                                       !.s_preview = w]
              ELSE UNCHANGED <<image_in, enhanced>>
       \/ UNCHANGED <<image_in, enhanced>>
    /\ UNCHANGED <<camvars, opvars, threadvars, hwvars, sigvars, guivars>>
    /\ UNCHANGED <<wait_log, revs_log>>

Next ==
    \/ start_capture_sequence
    \/ update_camera_feeds
    \/ update_camera_feeds_frame
    \/ update_progress
    \/ capture_finished
    \/ closeEvent
    \/ closeEvent_after_wait
    \/ Thread_mkdir
    \/ Thread_for
    \/ Thread_sleep
    \/ Thread_capture_enhanced
    \/ Thread_for_cam
    \/ Thread_capture_array
    \/ Thread_emit_progress
    \/ Thread_rotation
    \/ Thread_run_to_position
    \/ Thread_emit_finished
    \/ Thread_return

Spec == Init /\ [][Next]_vars

-----------------------------------------------------------------------------
(* CoralCameras: the control operations (253-297) *)

\* the camera ids a caller names: 0 and 1 may be configured, 2 never is
ProbedIds == 0..2

\* the cameras arguments a caller passes: None, an int, a list
CameraArgs ==
    {NoneArg} \cup {IntArg(c) : c \in ProbedIds}
              \cup {[kind |-> "list", ids |-> <<1, 0>>]}

\* the values a caller passes: microseconds, gain in tenths, lens position
ExposureValues == {3000, 15000}
GainValues == {10, 25}
LensPositions == {0, 5}

\* the keyword arguments a caller passes to set_enhancement_settings
SettingsSamples ==
    <<[gamma |-> 15],
      [enabled |-> TRUE, brightness |-> 20],
      [lower_limit |-> 10, upper_limit |-> 200, contrast |-> 12]>>

\* what the loop of an operation reads and writes
OpState ==
    [ExposureTime |-> ExposureTime, AnalogueGain |-> AnalogueGain, picam |-> picam,
     device_calls |-> 0, raised |-> "None"]

\* the loop body of operation op for camera cam; self.cameras[cam] raises
\* KeyError when cam is not a key, before anything else is done
OneCamera(st, op, value, cam) ==
    IF cam \notin DOMAIN st.picam
    THEN [st EXCEPT !.raised = "KeyError"]
    ELSE CASE op = "set_exposure" ->
                [st EXCEPT !.picam[cam].ExposureTime = value,
                           !.ExposureTime[cam] = value,
                           !.device_calls = @ + 1]
           [] op = "set_gain" ->
                [st EXCEPT !.picam[cam].AnalogueGain = value,
                           !.AnalogueGain[cam] = value,
                           !.device_calls = @ + 1]
           [] op = "set_controls" ->           \* {"ExposureTime": value}
                [st EXCEPT !.picam[cam].ExposureTime = value,
                           !.device_calls = @ + 1]
           [] op = "focus_auto" ->             \* set_controls, autofocus_cycle
                [st EXCEPT !.picam[cam].AfMode = "Auto",
                           !.device_calls = @ + 2]
           [] op = "focus_manual" ->
                [st EXCEPT !.picam[cam].AfMode = "Manual",
                           !.picam[cam].LensPosition = value,
                           !.device_calls = @ + 1]
           [] op = "start" ->
                [st EXCEPT !.picam[cam].started = TRUE, !.device_calls = @ + 1]
           [] op = "stop" ->
                [st EXCEPT !.picam[cam].started = FALSE, !.device_calls = @ + 1]

\* for cam in self._get_cameras(cameras): the loop ends early when a body raises
RECURSIVE ForCams(_, _, _, _)
ForCams(st, op, value, cams) ==
    IF cams = <<>> \/ st.raised # "None"
    THEN st
    ELSE ForCams(OneCamera(st, op, value, Head(cams)), op, value, Tail(cams))

\* a caller calls operation op with the given value and cameras argument
Call(op, value, arg) ==
    LET st == ForCams(OpState, op, value, _get_cameras(arg))
    IN  /\ n_ops < MaxOps
        /\ n_ops' = n_ops + 1
        /\ ExposureTime' = st.ExposureTime
        /\ AnalogueGain' = st.AnalogueGain
        /\ picam' = st.picam
        /\ last_call' = [op |-> op, arg |-> arg, settings |-> <<>>,
                         device_calls |-> st.device_calls, raised |-> st.raised]
        /\ UNCHANGED <<cameras, enhancement_settings>>
        /\ UNCHANGED <<threadvars, hwvars, sigvars, guivars, auxvars>>

\* set_exposure (285-288)
CoralCameras_set_exposure ==
    \E v \in ExposureValues, arg \in CameraArgs : Call("set_exposure", v, arg)

\* set_controls (295-297) with an exposure time in the control input
CoralCameras_set_controls ==
    \E v \in ExposureValues, arg \in CameraArgs : Call("set_controls", v, arg)

\* set_gain (290-293)
CoralCameras_set_gain ==
    \E v \in GainValues, arg \in CameraArgs : Call("set_gain", v, arg)

\* focus_auto (271-276)
CoralCameras_focus_auto ==
    \E arg \in CameraArgs : Call("focus_auto", 0, arg)

\* focus_manual (278-283)
CoralCameras_focus_manual ==
    \E v \in LensPositions, arg \in CameraArgs : Call("focus_manual", v, arg)

\* start (253-255)
CoralCameras_start ==
    \E arg \in CameraArgs : Call("start", 0, arg)

\* stop (257-259)
CoralCameras_stop ==
    \E arg \in CameraArgs : Call("stop", 0, arg)

\* set_enhancement_settings (91-94)
SetEnhancementSettings(samples) ==
    /\ n_ops < MaxOps
    /\ n_ops' = n_ops + 1
    /\ \E c \in ProbedIds, i \in 1..Len(samples) :
          /\ enhancement_settings' =
                set_enhancement_settings(enhancement_settings, c, samples[i])
          /\ last_call' = [op |-> "set_enhancement_settings", arg |-> IntArg(c),
                           settings |-> samples[i],
                           device_calls |-> 0, raised |-> "None"]
    /\ UNCHANGED <<cameras, ExposureTime, AnalogueGain, picam>>
    /\ UNCHANGED <<threadvars, hwvars, sigvars, guivars>>
    /\ UNCHANGED auxvars

CoralCameras_set_enhancement_settings == SetEnhancementSettings(SettingsSamples)

Max(a, b) == IF a >= b THEN a ELSE b
Min(a, b) == IF a <= b THEN a ELSE b

\* camera.py 192-204: the settings auto_enhance_for_dark_background derives from
\* a sample frame
optimal_settings(frame) ==
    [enabled |-> TRUE, remove_black_background |-> TRUE,
     black_threshold |-> Max(10, percentile(frame, 1)),
     lower_limit |-> Max(5, percentile(frame, 1) - 5),
     upper_limit |-> Min(250, percentile(frame, 99) + 10),
     gamma |-> 7, contrast |-> 12, brightness |-> 5,
     denoise |-> TRUE, sharpen |-> FALSE]

\* auto_enhance_for_dark_background(camera_id) (169-208): a sample frame is read
\* without enhancement and the settings derived from it are stored; with no
\* frame (an unconfigured id, None or an exception of the device) nothing is
CoralCameras_auto_enhance_for_dark_background ==
    /\ n_ops < MaxOps
    /\ n_ops' = n_ops + 1
    /\ \E c \in ProbedIds :
          \/ /\ c \in cameras
             /\ enhancement_settings' =
                   set_enhancement_settings(enhancement_settings, c,
                                            optimal_settings(StillFrame))
             /\ last_call' = [op |-> "auto_enhance_for_dark_background",
                              arg |-> IntArg(c),
                              settings |-> optimal_settings(StillFrame),
                              device_calls |-> 1, raised |-> "None"]
          \/ /\ UNCHANGED enhancement_settings
             /\ last_call' = [op |-> "auto_enhance_for_dark_background",
                              arg |-> IntArg(c), settings |-> <<>>,
                              device_calls |-> IF c \in cameras THEN 1 ELSE 0,
                              raised |-> "None"]
    /\ UNCHANGED <<cameras, ExposureTime, AnalogueGain, picam>>
    /\ UNCHANGED <<threadvars, hwvars, sigvars, guivars>>
    /\ UNCHANGED auxvars

NextCam ==
    \/ CoralCameras_set_exposure
    \/ CoralCameras_set_gain
    \/ CoralCameras_focus_auto
    \/ CoralCameras_focus_manual
    \/ CoralCameras_start
    \/ CoralCameras_stop
    \/ CoralCameras_set_controls
    \/ CoralCameras_set_enhancement_settings
    \/ CoralCameras_auto_enhance_for_dark_background

SpecCam == Init /\ [][NextCam]_vars

-----------------------------------------------------------------------------
(* CaptureThread.run: the progress of every frame, for larger num_images *)

\* a worker about to count its first frame, for any num_images of 1 or more
InitProgress ==
    /\ InitCameras(CameraIds)
    /\ InitHardware
    /\ InitWindow
    /\ InitAux
    /\ capture_thread = "CaptureThread"
    /\ pc = "emit_progress"
    /\ num_images \in 1..MaxProgressImages
    /\ image = 0
    /\ current_capture = 0
    /\ rotation_step = rotation_step_of(num_images)
    /\ cams_left = <<>>
    /\ output_dir = "present"
    /\ raised_by = "None"

\* lines 503-505 of one pass of the loop; the other statements of the pass
\* (sleep, capture, rotation) are left out
Frame_emit_progress ==
    /\ pc = "emit_progress"
    /\ image \in range(num_images)
    /\ CountAndEmit
    /\ image' = image + 1
    /\ UNCHANGED <<capture_thread, pc, num_images, rotation_step, cams_left,
                   output_dir, raised_by>>
    /\ UNCHANGED <<camvars, opvars, hwvars, guivars>>
    /\ UNCHANGED auxvars

NextProgress == Frame_emit_progress

SpecProgress == InitProgress /\ [][NextProgress]_vars

-----------------------------------------------------------------------------
(***************************************************************************)
(* Motor.rotation: the moves of a whole turn in num_images steps, for      *)
(* larger num_images, and the moves any other caller commands.             *)
(***************************************************************************)

\* the largest num_images of a turn
MaxMotorImages == 50

\* the degrees a caller passes to Motor.rotation
DegreeSamples == {36, 90, 360}

\* either no worker exists, or a worker is about to command its first move,
\* for any num_images of 1 or more
InitMotor ==
    /\ InitCameras(CameraIds)
    /\ InitHardware
    /\ InitWindow
    /\ InitAux
    /\ \/ InitThread
       \/ /\ capture_thread = "CaptureThread"
          /\ pc = "rotation"
          /\ num_images \in 1..MaxMotorImages
          /\ image = 0
          /\ current_capture = 0
          /\ rotation_step = rotation_step_of(num_images)
          /\ cams_left = <<>>
          /\ output_dir = "present"
          /\ raised_by = "None"

\* line 507 of one pass of the loop, with motor_TMC2209.py 34-36; the other
\* statements of the pass (sleep, capture, progress) are left out
Frame_rotation ==
    /\ pc = "rotation"
    /\ image \in range(num_images)
    /\ rot_log' = Append(rot_log, rotation_step)
    /\ revs_log' = Append(revs_log,
                          rotation(fdiv(rotation_step.num, rotation_step.den)))
    /\ image' = image + 1
    /\ UNCHANGED <<capture_thread, pc, num_images, current_capture,
                   rotation_step, cams_left, output_dir, raised_by>>
    /\ UNCHANGED <<motor_moving, capturing, cap_log, frame_trace>>
    /\ UNCHANGED <<camvars, opvars, sigvars, guivars>>
    /\ UNCHANGED <<feed, wait_log, image_in, enhanced>>

\* Motor.rotation(degrees) (34-36) called by any caller while no worker exists
Motor_rotation ==
    /\ pc = "none"
    /\ Len(revs_log) < MaxOps
    /\ \E degrees \in DegreeSamples :
          /\ rot_log' = Append(rot_log, [num |-> degrees, den |-> 1])
          /\ revs_log' = Append(revs_log, rotation(fdiv(degrees, 1)))
    /\ UNCHANGED <<motor_moving, capturing, cap_log, frame_trace>>
    /\ UNCHANGED <<camvars, opvars, threadvars, sigvars, guivars>>
    /\ UNCHANGED <<feed, wait_log, image_in, enhanced>>

NextMotor == Frame_rotation \/ Motor_rotation

SpecMotor == InitMotor /\ [][NextMotor]_vars

-----------------------------------------------------------------------------
(***************************************************************************)
(* The enhancement of frames: a camera delivers a frame, and               *)
(* CoralCameras.apply_image_enhancement and                                *)
(* CameraWidget.apply_image_enhancement are called on it, each on what its *)
(* last call returned, until the frame is shown.  As on the preview path,  *)
(* which runs in the GUI thread from the read to the display (637-647),    *)
(* the controls and the settings change between frames.                    *)
(***************************************************************************)

\* how many calls of each apply_image_enhancement one frame gets
MaxApply == 2

\* a frame with every channel value 0..255 in it: pixel j is
\* <<3j - 3, 3j - 2, 3j - 1>>, the last one white
Ramp ==
    [j \in 1..86 |->
        IF j = 86 THEN <<255, 255, 255>> ELSE <<3 * j - 3, 3 * j - 2, 3 * j - 1>>]

\* a dark frame: a pixel of the black background, a dim one, one bright channel
Dark == <<(<<7, 7, 7>>), (<<15, 16, 15>>), (<<7, 0, 200>>), (<<50, 200, 237>>)>>

FrameSamples == {Ramp, Dark}

\* values of the enhancement controls of a CameraWidget (236-290): the limits
\* within 0..254 and 1..255, the brightness within -100..100
WidgetSamples ==
    {DefaultWidget,
     [DefaultWidget EXCEPT !.lower_limit = 50, !.upper_limit = 200,
                           !.brightness = 20],
     [DefaultWidget EXCEPT !.enabled = TRUE, !.lower_limit = 50,
                           !.upper_limit = 200],
     [DefaultWidget EXCEPT !.enabled = TRUE, !.upper_limit = 7],
     [DefaultWidget EXCEPT !.enabled = TRUE, !.upper_limit = 237],
     [DefaultWidget EXCEPT !.enabled = TRUE, !.lower_limit = 100,
                           !.upper_limit = 100, !.brightness = -20]}

\* keyword arguments of a direct call of set_enhancement_settings
EnhanceSamples ==
    <<[remove_black_background |-> FALSE],
      [enabled |-> TRUE, gamma |-> 0],
      [enabled |-> FALSE, gamma |-> 0, black_threshold |-> 60]>>

\* Picamera2.capture_array: camera c delivers a frame
Picamera2_capture_array ==
    /\ image_in = <<>>
    /\ \E c \in cameras, img \in FrameSamples :
          /\ image_in' = [cam |-> c, image |-> img]
          /\ enhanced' = NotEnhanced(img)
    /\ UNCHANGED <<camvars, opvars, threadvars, hwvars, sigvars, guivars>>
    /\ UNCHANGED <<feed, wait_log, revs_log>>

\* CoralCameras.apply_image_enhancement(image, camera_id) (100-149) on the
\* frame of camera_id; an exception leaves the caller without a result
CoralCameras_apply_image_enhancement ==
    /\ image_in # <<>>
    /\ enhanced.n_camera < MaxApply
    /\ enhanced.raised = "None"
    /\ LET settings == enhancement_settings[image_in.cam]
           r == apply_image_enhancement(enhanced.camera, settings)
       IN  enhanced' = [enhanced EXCEPT
                           !.camera = r.image,
                           !.raised = r.raised,
                           !.n_camera = @ + 1,
                           !.off_camera = IF settings.enabled THEN @ ELSE @ + 1,
                           !.s_camera = settings]
    /\ UNCHANGED <<camvars, opvars, threadvars, hwvars, sigvars, guivars>>
    /\ UNCHANGED <<feed, wait_log, revs_log, image_in>>

\* CameraWidget.apply_image_enhancement(image) (383-417) of the widget of the
\* camera the frame came from
CameraWidget_apply_image_enhancement ==
    /\ image_in # <<>>
    /\ enhanced.n_preview < MaxApply
    /\ LET w == widgets[image_in.cam]
           r == widget_apply_image_enhancement(enhanced.preview, w)
       IN  enhanced' = [enhanced EXCEPT
                           !.preview = r.image,
                           !.n_preview = @ + 1,
                           !.off_preview = IF w.enabled THEN @ ELSE @ + 1,
                           !.s_preview = w]
    /\ UNCHANGED <<camvars, opvars, threadvars, hwvars, sigvars, guivars>>
    /\ UNCHANGED <<feed, wait_log, revs_log, image_in>>

\* update_frame (454-462) puts the frame on the screen
CameraWidget_setPixmap ==
    /\ image_in # <<>>
    /\ image_in' = <<>>
    /\ enhanced' = NotEnhanced(<<>>)
    /\ UNCHANGED <<camvars, opvars, threadvars, hwvars, sigvars, guivars>>
    /\ UNCHANGED <<feed, wait_log, revs_log>>

\* the controls of the widget of camera c take the values w: every control
\* that changes emits valueChanged or toggled, and on_enhancement_changed
\* (338-352) hands the values of all the controls to the camera; by is the
\* handler that set them
SetControls(by, c, w) ==
    /\ widgets' = [widgets EXCEPT ![c] = w]
    /\ enhancement_settings' =
          IF w = widgets[c] THEN enhancement_settings
          ELSE set_enhancement_settings(enhancement_settings, c, WidgetSettings(w))
    /\ last_call' = [op |-> by, arg |-> IntArg(c), settings |-> widgets[c],
                     device_calls |-> 0, raised |-> "None"]
    /\ UNCHANGED <<cameras, ExposureTime, AnalogueGain, picam, n_ops>>
    /\ UNCHANGED <<start_capture_btn, progress_bar, status_label, msg, gui,
                   sequences, quit_at>>
    /\ UNCHANGED <<threadvars, hwvars, sigvars, auxvars>>

\* the user changes enhancement controls of a widget
CameraWidget_on_enhancement_changed ==
    /\ gui = "running"
    /\ feed = <<>>
    /\ \E c \in DOMAIN widgets, w \in WidgetSamples :
          w # widgets[c] /\ SetControls("on_enhancement_changed", c, w)

\* the controls change between two frames
Frame_on_enhancement_changed ==
    /\ image_in = <<>>
    /\ CameraWidget_on_enhancement_changed

\* a direct call of set_enhancement_settings
Any_set_enhancement_settings ==
    /\ image_in = <<>>
    /\ SetEnhancementSettings(EnhanceSamples)

NextEnhance ==
    \/ Picamera2_capture_array
    \/ CoralCameras_apply_image_enhancement
    \/ CameraWidget_apply_image_enhancement
    \/ CameraWidget_setPixmap
    \/ Frame_on_enhancement_changed
    \/ Any_set_enhancement_settings

\* a controller with one camera: the enhancement of a frame reads the
\* settings and the controls of the camera the frame came from, and no other
InitEnhance ==
    /\ InitCameras({0})
    /\ InitThread
    /\ InitHardware
    /\ InitWindow
    /\ InitAux

SpecEnhance == InitEnhance /\ [][NextEnhance]_vars

-----------------------------------------------------------------------------
(***************************************************************************)
(* capture_enhanced: a worker that captures one frame, while callers set   *)
(* the exposure, the controls and the enhancement of the cameras.          *)
(***************************************************************************)

\* a caller constructs a CaptureThread for one image and starts it
CaptureThread_start_one ==
    /\ capture_thread = "None"
    /\ NewThread(1, "present")
    /\ UNCHANGED <<camvars, opvars, guivars>>
    /\ UNCHANGED <<feed, image_in, enhanced>>

\* set_enhancement_settings called by any caller, at any moment
CoralCameras_set_enhancement_settings_any == SetEnhancementSettings(EnhanceSamples)

\* on_exposure_changed of the widget of camera c (main_window.py 326-327)
CameraWidget_on_exposure_changed ==
    \E v \in ExposureValues, c \in cameras : Call("set_exposure", v, IntArg(c))

\* set_controls (camera.py 295-297) with an exposure time, for one camera
CoralCameras_set_controls_one ==
    \E v \in ExposureValues, c \in cameras : Call("set_controls", v, IntArg(c))

NextCapture ==
    \/ CaptureThread_start_one
    \/ Thread_mkdir
    \/ Thread_for
    \/ Thread_sleep
    \/ Thread_capture_enhanced
    \/ Thread_for_cam
    \/ Thread_capture_array
    \/ Thread_emit_progress
    \/ Thread_rotation
    \/ Thread_run_to_position
    \/ Thread_emit_finished
    \/ Thread_return
    \/ CameraWidget_on_exposure_changed
    \/ CoralCameras_set_controls_one
    \/ CoralCameras_set_enhancement_settings_any

SpecCapture == Init /\ [][NextCapture]_vars

-----------------------------------------------------------------------------
(***************************************************************************)
(* The enhancement controls of the widgets: the preview timer shows        *)
(* frames, and the user presses Auto Levels and Reset and edits controls.  *)
(***************************************************************************)

\* QSpinBox.setValue: the value is brought into the range of the box
setValue(v, lo, hi) == IF v < lo THEN lo ELSE IF v > hi THEN hi ELSE v

\* on_auto_levels (354-372): the controls afterwards, for the frame the
\* widget received last
auto_levels(w, frame) ==
    [w EXCEPT !.lower_limit = setValue(percentile(frame, 1), 0, 254),
              !.upper_limit = setValue(percentile(frame, 99), 1, 255),
              !.enabled = TRUE]

\* the Auto Levels button of the widget that received the last frame:
\* current_frame is the frame update_frame was called with (423)
CameraWidget_on_auto_levels ==
    /\ gui = "running"
    /\ feed = <<>>
    /\ image_in # <<>>
    /\ enhanced.n_preview = 1
    /\ SetControls("on_auto_levels", image_in.cam,
                   auto_levels(widgets[image_in.cam], enhanced.camera))

\* on_reset_enhancement (374-381), the slot of the Reset button
CameraWidget_on_reset_enhancement ==
    /\ gui = "running"
    /\ feed = <<>>
    /\ \E c \in DOMAIN widgets :
          SetControls("on_reset_enhancement", c, DefaultWidget)

NextAuto ==
    \/ update_camera_feeds
    \/ update_camera_feeds_frame
    \/ CameraWidget_on_enhancement_changed
    \/ CameraWidget_on_auto_levels
    \/ CameraWidget_on_reset_enhancement

\* one camera, as the controls of a widget act on its own camera only
SpecAuto == InitEnhance /\ [][NextAuto]_vars

-----------------------------------------------------------------------------
(***************************************************************************)
(* The construction: MainWindow.__init__ constructs CoralCameras, whose    *)
(* __init__ opens the devices; the control operations follow.              *)
(***************************************************************************)

\* how Picamera2(i) can end: the device is opened, the index is past the list
\* of the cameras found, or the device is there and cannot be acquired
OpenOutcomes == {"opened", "IndexError", "RuntimeError"}

\* the devices as Picamera2 lists them: no index 1 without an index 0
DeviceStates ==
    {d \in [CameraIds -> OpenOutcomes] :
        d[0] = "IndexError" => d[1] = "IndexError"}

\* nothing is constructed yet
InitConstruction ==
    /\ cameras = {}
    /\ ExposureTime = <<>>
    /\ AnalogueGain = <<>>
    /\ enhancement_settings = <<>>
    /\ picam = <<>>
    /\ last_call = [op |-> "none", arg |-> NoneArg, settings |-> <<>>,
                    device_calls |-> 0, raised |-> "None"]
    /\ n_ops = 0
    /\ InitThread
    /\ InitHardware
    /\ InitAux
    /\ start_capture_btn = FALSE
    /\ progress_bar = [visible |-> FALSE, value |-> 0]
    /\ status_label = "None"
    /\ msg = "None"
    /\ widgets = <<>>
    /\ gui = "constructing"
    /\ sequences = 0
    /\ quit_at = -1

\* camera.py 57-62: what __init__ makes of the devices d: Picamera2(0) is
\* outside any try, and of Picamera2(1) only an IndexError is caught
opened_cameras(d) ==
    IF d[0] # "opened" THEN [raised |-> d[0], cameras |-> {}]
    ELSE IF d[1] = "opened" THEN [raised |-> "None", cameras |-> {0, 1}]
    ELSE IF d[1] = "IndexError" THEN [raised |-> "None", cameras |-> {0}]
    ELSE [raised |-> d[1], cameras |-> {}]

\* MainWindow.__init__ (512-528) with CoralCameras.__init__ and setup()
\* (camera.py 56-89), for the devices d: an exception of the constructor ends
\* the program (522-524)
MainWindow_init ==
    /\ gui = "constructing"
    /\ \E d \in DeviceStates :
          LET r == opened_cameras(d)
              cams == r.cameras
          IN  /\ last_call' = [op |-> "__init__", arg |-> NoneArg, settings |-> d,
                               device_calls |-> 0, raised |-> r.raised]
              /\ cameras' = cams
              /\ ExposureTime' = [k \in cams |-> InitExposureTime]
              /\ AnalogueGain' = [k \in cams |-> InitAnalogueGain]
              /\ enhancement_settings' = [k \in cams |-> DefaultEnhancement]
              /\ picam' = [k \in cams |->
                             [ExposureTime |-> ConfigExposureTime,
                              AnalogueGain |-> ConfigAnalogueGain,
                              AfMode |-> "Auto", LensPosition |-> 0,
                              started |-> TRUE]]
              /\ widgets' = [k \in cams |-> DefaultWidget]
              /\ IF r.raised = "None"
                 THEN /\ gui' = "running"
                      /\ start_capture_btn' = TRUE
                      /\ status_label' = "System Ready"
                      /\ msg' = msg
                 ELSE /\ gui' = "exited"
                      /\ msg' = "Hardware Error"
                      /\ UNCHANGED <<start_capture_btn, status_label>>
    /\ UNCHANGED <<n_ops, progress_bar, sequences, quit_at>>
    /\ UNCHANGED <<threadvars, hwvars, sigvars, auxvars>>

\* the construction, and the control operations once the window runs
NextConstruction ==
    \/ MainWindow_init
    \/ gui = "running" /\ NextCam

SpecConstruction == InitConstruction /\ [][NextConstruction]_vars

-----------------------------------------------------------------------------
(***************************************************************************)
(* apply_image_enhancement statement by statement: the worker enhances a   *)
(* still while the GUI thread runs on_enhancement_changed.  Line 105 binds *)
(* settings to the dict of the camera itself, the one that                 *)
(* set_enhancement_settings updates in place (94), and each statement      *)
(* reads its entries when it is executed.                                  *)
(***************************************************************************)

\* the statements of apply_image_enhancement that read entries of the dict,
\* in the order of execution (camera.py 106, 112-113, 118, 119, 124, 129,
\* 134, 142-145)
EnhanceStmts ==
    <<"get_enabled", "get_black", "get_lower_limit", "get_upper_limit",
      "get_gamma", "get_contrast", "get_brightness", "get_denoise">>

\* the entries each of them reads
StmtKeys ==
    [get_enabled |-> {"enabled"},
     get_black |-> {"remove_black_background", "black_threshold"},
     get_lower_limit |-> {"lower_limit"},
     get_upper_limit |-> {"upper_limit"},
     get_gamma |-> {"gamma"},
     get_contrast |-> {"contrast"},
     get_brightness |-> {"brightness"},
     get_denoise |-> {"denoise", "sharpen"}]

IsEnhanceStmt(s) == \E j \in 1..Len(EnhanceStmts) : EnhanceStmts[j] = s

\* camera.py 234-236: capture_array('main') ends: with a frame, on which
\* apply_image_enhancement begins, or with None or an exception
Thread_capture_array_main ==
    /\ gui # "aborted"
    /\ pc = "capture_array"
    /\ \/ /\ image_in' = [cam |-> Head(cams_left), image |-> StillFrame]
          /\ enhanced' = [NotEnhanced(StillFrame) EXCEPT
                              !.held = <<enhancement_settings[Head(cams_left)]>>]
          /\ pc' = EnhanceStmts[1]
          /\ UNCHANGED <<cap_log, capturing, cams_left>>
       \/ /\ image_in' = <<>>
          /\ enhanced' = NotEnhanced(<<>>)
          /\ CameraDone("missing")
    /\ UNCHANGED <<capture_thread, num_images, image, current_capture,
                   rotation_step, output_dir, raised_by>>
    /\ UNCHANGED <<motor_moving, rot_log, frame_trace>>
    /\ UNCHANGED <<camvars, opvars, sigvars, guivars>>
    /\ UNCHANGED <<feed, wait_log, revs_log>>

\* one statement of apply_image_enhancement (camera.py 105-149) in the worker:
\* it reads its entries from the dict as the dict is now; s_camera collects
\* what the statements of this call have read.  Line 107 returns the frame as
\* it is; after the last statement the frame is what the stages made of it
\* with the values they read, and capture_enhanced writes it (239-241).
Thread_apply_image_enhancement ==
    /\ gui # "aborted"
    /\ IsEnhanceStmt(pc)
    /\ LET d == enhancement_settings[Head(cams_left)]
           seen == update(enhanced.s_camera, [k \in StmtKeys[pc] |-> d[k]])
       IN  IF pc = "get_enabled" /\ ~is_enabled(d)
           THEN /\ enhanced' = [enhanced EXCEPT !.s_camera = seen,
                                                !.n_camera = 1,
                                                !.off_camera = 1]
                /\ CameraDone("saved")
           ELSE IF pc = EnhanceStmts[Len(EnhanceStmts)]
           THEN LET r == apply_image_enhancement(StillFrame, seen)
                IN  /\ enhanced' = [enhanced EXCEPT !.s_camera = seen,
                                                    !.n_camera = 1,
                                                    !.camera = r.image,
                                                    !.raised = r.raised]
                    /\ CameraDone(IF r.raised = "None" THEN "saved"
                                  ELSE "missing")
           ELSE /\ enhanced' = [enhanced EXCEPT !.s_camera = seen]
                /\ pc' = EnhanceStmts[(CHOOSE j \in 1..Len(EnhanceStmts) :
                                         EnhanceStmts[j] = pc) + 1]
                /\ UNCHANGED <<cap_log, capturing, cams_left>>
    /\ UNCHANGED <<capture_thread, num_images, image, current_capture,
                   rotation_step, output_dir, raised_by>>
    /\ UNCHANGED <<motor_moving, rot_log, frame_trace>>
    /\ UNCHANGED <<camvars, opvars, sigvars, guivars>>
    /\ UNCHANGED <<feed, wait_log, revs_log, image_in>>

\* how many controls change while one frame is enhanced
MaxChanges == 2

\* values of the controls the user changes (236-246, 288-290)
ControlValues ==
    [enabled |-> BOOLEAN, lower_limit |-> {0, 50}, upper_limit |-> {200, 255}]

\* the user changes one control of the widget of camera c: its valueChanged or
\* toggled signal runs on_enhancement_changed (338-352), which hands the
\* values of all the controls to set_enhancement_settings; the dict of a
\* camera whose frame is being enhanced is updated under the worker
CameraWidget_valueChanged ==
    /\ gui = "running"
    /\ feed = <<>>
    /\ \E c \in DOMAIN widgets, k \in DOMAIN ControlValues :
          \E v \in ControlValues[k] \ {widgets[c][k]} :
             LET w == [widgets[c] EXCEPT ![k] = v]
                 es == set_enhancement_settings(enhancement_settings, c,
                                                WidgetSettings(w))
             IN  /\ widgets' = [widgets EXCEPT ![c] = w]
                 /\ enhancement_settings' = es
                 /\ IF IsEnhanceStmt(pc) /\ Head(cams_left) = c
                    THEN /\ Len(enhanced.held) <= MaxChanges
                         /\ enhanced' = [enhanced EXCEPT
                                             !.held = Append(@, es[c])]
                    ELSE UNCHANGED enhanced
    /\ UNCHANGED <<cameras, ExposureTime, AnalogueGain, picam, opvars>>
    /\ UNCHANGED <<start_capture_btn, progress_bar, status_label, msg, gui,
                   sequences, quit_at>>
    /\ UNCHANGED <<threadvars, hwvars, sigvars>>
    /\ UNCHANGED <<feed, wait_log, revs_log, image_in>>

NextRace ==
    \/ CaptureThread_start_one
    \/ Thread_mkdir
    \/ Thread_for
    \/ Thread_sleep
    \/ Thread_capture_enhanced
    \/ Thread_for_cam
    \/ Thread_capture_array_main
    \/ Thread_apply_image_enhancement
    \/ Thread_emit_progress
    \/ Thread_rotation
    \/ Thread_run_to_position
    \/ Thread_emit_finished
    \/ Thread_return
    \/ CameraWidget_valueChanged

\* one camera, its widget, and a worker that captures one frame
SpecRace == InitEnhance /\ [][NextRace]_vars

-----------------------------------------------------------------------------
(***************************************************************************)
(* The window and its worker under fair scheduling.                        *)
(***************************************************************************)

\* the statements of run(): the worker thread is scheduled until run() ends
Thread_step ==
    \/ Thread_mkdir
    \/ Thread_for
    \/ Thread_sleep
    \/ Thread_capture_enhanced
    \/ Thread_for_cam
    \/ Thread_capture_array
    \/ Thread_emit_progress
    \/ Thread_rotation
    \/ Thread_run_to_position
    \/ Thread_emit_finished
    \/ Thread_return

NextLive ==
    \/ start_capture_sequence
    \/ update_progress
    \/ capture_finished
    \/ Thread_mkdir
    \/ Thread_for
    \/ Thread_sleep
    \/ Thread_capture_enhanced
    \/ Thread_for_cam
    \/ Thread_capture_array
    \/ Thread_emit_progress
    \/ Thread_rotation
    \/ Thread_run_to_position
    \/ Thread_emit_finished
    \/ Thread_return

\* what the schedulers guarantee: the worker thread runs on, and the event
\* loop of the GUI thread delivers every queued signal to its slot (704-705).
\* The user owes nothing: no click on Start is ever due.  The first conjunct
\* is WF_vars(Thread_step) written out: a statement of run() is enabled while
\* run() has begun and not ended and the process was not aborted.
Fairness ==
    /\ ([]<>(~(gui # "aborted" /\ isRunning)) \/ []<><<Thread_step>>_vars)
    /\ WF_vars(update_progress)
    /\ WF_vars(capture_finished)

\* one camera, its window and the worker the window starts
SpecLive == InitEnhance /\ [][NextLive]_vars /\ Fairness

-----------------------------------------------------------------------------
(* The properties *)

IsPrefix(s, t) == Len(s) <= Len(t) /\ SubSeq(t, 1, Len(s)) = s

\* a worker exists and its run() has not ended
Running == capture_thread # "None" /\ pc \notin {"none", "finished", "raised"}

\* run() went through its whole loop
RanToTheEnd == pc \in {"emit_finished", "return", "finished"}

\* the completion signal was emitted
Completed == \E i \in 1..Len(emitted) : emitted[i].name = "finished_capture"

\* the still capture calls made for frame f on camera c
CapturesOf(f, c) == {i \in 1..Len(cap_log) : cap_log[i].image = f /\ cap_log[i].cam = c}

\* C1: a sequence requested with num_images <= 0 makes no capture, no rotation
\* and never emits the completion signal.
C1_NonPositiveCountAborts ==
    (capture_thread # "None" /\ num_images <= 0) =>
        /\ cap_log = <<>>
        /\ rot_log = <<>>
        /\ ~Completed

\* C2: a sequence of N > 0 images that ran to the end issued exactly N rotations,
\* each of 360/N degrees, and exactly one capture call for every pair of a frame
\* in 0..N-1 and a configured camera, N*C in all.
C2_RotationsAndCaptures ==
    (RanToTheEnd /\ num_images > 0) =>
        /\ Len(rot_log) = num_images
        /\ \A i \in 1..Len(rot_log) :
              rot_log[i].num * num_images = 360 * rot_log[i].den
        /\ Len(cap_log) = num_images * Cardinality(cameras)
        /\ \A f \in 0..(num_images - 1), c \in cameras :
              Cardinality(CapturesOf(f, c)) = 1
        /\ \A i \in 1..Len(cap_log) :
              cap_log[i].image \in 0..(num_images - 1) /\ cap_log[i].cam \in cameras

C2_Witness ==
    /\ pc = "finished"
    /\ num_images = 4
    /\ cameras = CameraIds
    /\ rot_log = [i \in 1..4 |-> [num |-> 360, den |-> 4]]
    /\ Len(cap_log) = 8

\* C3: while a worker is running no step makes a second worker, restarts or
\* rewinds the sequence or changes its settings, and a start request made then
\* only shows the "Capture in Progress" box: the worker, the hardware logs, the
\* signals, the progress bar and the settings stay as they are.
C3_SecondStartRejected ==
    [][Running =>
        /\ capture_thread' = capture_thread
        /\ num_images' = num_images
        /\ sequences' = sequences
        /\ image' >= image
        /\ current_capture' >= current_capture
        /\ IsPrefix(cap_log, cap_log')
        /\ IsPrefix(rot_log, rot_log')
        /\ IsPrefix(emitted, emitted')
        /\ enhancement_settings' = enhancement_settings
        /\ (msg' = "Capture in Progress" /\ msg' # msg) =>
              /\ UNCHANGED <<camvars, threadvars, hwvars, sigvars>>
              /\ UNCHANGED <<start_capture_btn, progress_bar, status_label,
                             sequences>>]_vars

C3_Witness ==
    /\ msg = "Capture in Progress"
    /\ sequences = 1
    /\ Running
    /\ num_images = 2
    /\ image = 2
    /\ Len(cap_log) = 2 * Cardinality(cameras)

\* the events of a frame, in order
FrameOrder ==
    <<Event("wait", {})>>
    \o [i \in 1..Len(ALL_CAMERAS) |-> Event("capture", {ALL_CAMERAS[i]})]
    \o <<Event("progress", {}), Event("rotation", {}), Event("rotated", {})>>

\* C4: the events of every frame are, in this order, the wait, a capture on
\* every configured camera, the progress emission, the rotation and its return;
\* the motor moves only inside the rotation call, no camera is capturing while
\* it moves, and it is at rest when the next wait begins.
C4_FrameOrder ==
    /\ IsPrefix(frame_trace, FrameOrder)
    /\ motor_moving => (pc = "run_to_position" /\ capturing = {})
    /\ capturing # {} => (pc = "capture_array" /\ ~motor_moving)
    /\ pc = "sleep" => (frame_trace = <<>> /\ ~motor_moving /\ capturing = {})

C4_Witness ==
    /\ pc = "for"
    /\ image = 1
    /\ cameras = CameraIds
    /\ frame_trace = FrameOrder
    /\ Len(frame_trace) = 6
    /\ ~motor_moving

\* frame f is past its capture_enhanced call
FrameCaptured(f) ==
    \/ image > f
    \/ image = f /\ pc \in {"emit_progress", "rotation", "run_to_position"}
    \/ image = f /\ pc = "raised" /\ raised_by = "motor"

\* C5: when a capture failed on a camera at a frame, every configured camera
\* was still asked for that frame, nothing but a motor or directory error ends
\* the worker early, and a worker that ended normally made all N*C capture
\* attempts and all N rotations and emitted the completion signal.
C5_CaptureFailureDoesNotAbort ==
    \A i \in 1..Len(cap_log) :
        cap_log[i].result = "missing" =>
            /\ FrameCaptured(cap_log[i].image) =>
                  \A c \in cameras : CapturesOf(cap_log[i].image, c) # {}
            /\ pc = "raised" => raised_by = "motor"
            /\ pc \in {"return", "finished"} =>
                  /\ Len(cap_log) = num_images * Cardinality(cameras)
                  /\ Len(rot_log) = num_images
                  /\ Completed

C5_Witness ==
    /\ pc = "finished"
    /\ Completed
    /\ num_images = 2
    /\ cameras = CameraIds
    /\ cap_log[1] = [image |-> 0, cam |-> 0, result |-> "missing"]
    /\ cap_log[2] = [image |-> 0, cam |-> 1, result |-> "saved"]
    /\ Len(cap_log) = 4
    /\ Len(rot_log) = 2

\* C6: a failure raised by the motor during a rotation never ends the worker.
C6_MotionFailureDoesNotAbort ==
    pc = "raised" => raised_by # "motor"

\* C7: once closeEvent has asked the running worker to stop, no further frame
\* is started, and unless every frame had already been started the completion
\* signal is not emitted.
C7_StopAtFrameBoundary ==
    quit_at >= 0 =>
        /\ FramesStarted = quit_at
        /\ quit_at < num_images => ~Completed

\* C8 as the specification states it: the progress of frame i is
\* round(100 * (i + 1) / num_images).
C8_ProgressRounded ==
    \A i \in 1..Len(emitted) :
        emitted[i].value = progress_percent_round(i, num_images)

\* C8: one progress value is emitted per frame, in frame order; the value of
\* the i-th frame is the integer part of the double (i / N) * 100: it is
\* floor(100 * i / N), or one less than that where 100 * i / N is a whole
\* number; the value of the last frame is 100.
C8_ProgressTruncated ==
    /\ Len(emitted) = current_capture
    /\ \A i \in 1..Len(emitted) :
          LET f == (100 * i) \div num_images
              v == emitted[i].value
          IN  /\ emitted[i].name = "progress"
              /\ v \in {f - 1, f}
              /\ (100 * i) % num_images # 0 => v = f
              /\ i = num_images => v = 100

C8_Witness ==
    /\ num_images = 50
    /\ Len(emitted) = 50
    /\ emitted[29].value = 57
    /\ emitted[28].value = 56
    /\ emitted[50].value = 100

\* the operations C9 names
IdOperations ==
    {"set_exposure", "set_gain", "focus_auto", "focus_manual", "start", "stop"}

\* C9: a call of set_exposure, set_gain, focus_auto, focus_manual, start or
\* stop with a camera id that is not configured raises nothing, makes no device
\* call and leaves the tracked exposure and gain and the devices as they were.
C9_UnconfiguredIdIsNoOp ==
    [][(/\ n_ops' = n_ops + 1
        /\ last_call'.op \in IdOperations
        /\ last_call'.arg.kind = "int"
        /\ last_call'.arg.ids[1] \notin cameras) =>
            /\ last_call'.raised = "None"
            /\ last_call'.device_calls = 0
            /\ UNCHANGED <<ExposureTime, AnalogueGain, picam, cameras,
                           enhancement_settings>>]_vars

C9_Witness ==
    /\ last_call.op = "set_exposure"
    /\ last_call.arg = IntArg(1)
    /\ cameras = {0}
    /\ last_call.raised = "None"
    /\ last_call.device_calls = 0
    /\ n_ops = 2
    /\ ExposureTime[0] = 15000

\* C10: set_enhancement_settings(camera_id, **settings) on a configured camera
\* gives every named field its new value, keeps every other field and every
\* other camera's settings; on an id that is not configured it changes nothing.
C10_SettingsMerge ==
    [][(n_ops' = n_ops + 1 /\ last_call'.op = "set_enhancement_settings") =>
        LET c == last_call'.arg.ids[1]
            s == last_call'.settings
        IN  IF c \in cameras
            THEN /\ DOMAIN enhancement_settings' = DOMAIN enhancement_settings
                 /\ DOMAIN enhancement_settings'[c] =
                        DOMAIN enhancement_settings[c] \cup DOMAIN s
                 /\ \A k \in DOMAIN s : enhancement_settings'[c][k] = s[k]
                 /\ \A k \in DOMAIN enhancement_settings[c] \ DOMAIN s :
                        enhancement_settings'[c][k] = enhancement_settings[c][k]
                 /\ \A o \in cameras \ {c} :
                        enhancement_settings'[o] = enhancement_settings[o]
            ELSE enhancement_settings' = enhancement_settings]_vars

C10_Witness ==
    /\ last_call.op = "set_enhancement_settings"
    /\ last_call.arg = IntArg(0)
    /\ last_call.settings = SettingsSamples[1]
    /\ enhancement_settings[0].gamma = 15
    /\ enhancement_settings[0].enabled = TRUE
    /\ enhancement_settings[0].brightness = 20
    /\ enhancement_settings[0].upper_limit = 255
    /\ cameras = CameraIds
    /\ enhancement_settings[1] = DefaultEnhancement

-----------------------------------------------------------------------------
(* The enhancement *)

\* every <<pixel, channel>> of an image
Channels(img) == (1..Len(img)) \X (1..3)

\* the stages other than the levels leave a frame alone
NeutralStages(s) == s.gamma = 10 /\ s.contrast = 10 /\ s.brightness = 0

\* the one camera-side call made on the frame stretched the levels and did
\* nothing else
CameraLevelsOnly ==
    /\ image_in # <<>>
    /\ enhanced.n_camera = 1
    /\ enhanced.raised = "None"
    /\ enhanced.s_camera.enabled
    /\ enhanced.s_camera.upper_limit > enhanced.s_camera.lower_limit
    /\ NeutralStages(enhanced.s_camera)
    /\ ~enhanced.s_camera.remove_black_background

\* the one preview-side call made on the frame stretched the levels and did
\* nothing else
PreviewLevelsOnly ==
    /\ image_in # <<>>
    /\ enhanced.n_preview = 1
    /\ enhanced.s_preview.enabled
    /\ enhanced.s_preview.upper_limit > enhanced.s_preview.lower_limit
    /\ NeutralStages(enhanced.s_preview)

SameLimits ==
    /\ enhanced.s_camera.lower_limit = enhanced.s_preview.lower_limit
    /\ enhanced.s_camera.upper_limit = enhanced.s_preview.upper_limit

\* out is a non-decreasing function of the channel values of img
NonDecreasing(img, out) ==
    \A p, q \in Channels(img) :
        img[p[1]][p[2]] <= img[q[1]][q[2]] => out[p[1]][p[2]] <= out[q[1]][q[2]]

\* C11: while every enhancement call made on a frame found the enhancement
\* disabled, whatever the other settings are, what the calls returned is the
\* frame as the camera delivered it, and no call raised; this holds for the
\* camera-side and for the preview-side function, after any number of calls
C11_DisabledIsIdentity ==
    image_in # <<>> =>
        /\ enhanced.off_camera = enhanced.n_camera =>
              enhanced.camera = image_in.image /\ enhanced.raised = "None"
        /\ enhanced.off_preview = enhanced.n_preview =>
              enhanced.preview = image_in.image

\* two disabled calls of each function were made on the ramp, the camera-side
\* ones with gamma 0 and a black threshold of 60, the preview-side ones with
\* limits 50 and 200 and brightness 20
C11_Witness ==
    /\ image_in # <<>>
    /\ image_in.image = Ramp
    /\ enhanced.n_camera >= 2 /\ enhanced.off_camera = enhanced.n_camera
    /\ enhanced.n_preview >= 2 /\ enhanced.off_preview = enhanced.n_preview
    /\ enhanced.s_camera.gamma = 0 /\ enhanced.s_camera.black_threshold = 60
    /\ enhanced.s_preview.lower_limit = 50 /\ enhanced.s_preview.brightness = 20

\* C12 as stated: with only the levels stage active, both functions map the
\* upper limit to 255, and with the same limits they return the same frame
C12_LevelsSameResult ==
    /\ CameraLevelsOnly =>
          \A p \in Channels(image_in.image) :
              image_in.image[p[1]][p[2]] = enhanced.s_camera.upper_limit
                  => enhanced.camera[p[1]][p[2]] = 255
    /\ CameraLevelsOnly /\ PreviewLevelsOnly /\ SameLimits =>
          enhanced.camera = enhanced.preview

\* C12, amended: with only the levels stage active and limits l < u, a channel
\* value v <= l becomes 0 and v > u becomes 255 on both sides, and both are
\* non-decreasing.  The preview side returns floor(255 (v - l) / (u - l)) for
\* l <= v <= u, so u becomes 255.  The camera side returns the same or one
\* less, one less only where 255 (v - l) / (u - l) is a whole number: with
\* limits 50 and 200 it maps 200 to 255, with limits 0 and 7 it maps 7 to 254.
C12_Levels ==
    /\ CameraLevelsOnly =>
          LET l == enhanced.s_camera.lower_limit
              u == enhanced.s_camera.upper_limit
          IN  /\ NonDecreasing(image_in.image, enhanced.camera)
              /\ \A p \in Channels(image_in.image) :
                    LET v == image_in.image[p[1]][p[2]]
                        y == enhanced.camera[p[1]][p[2]]
                        e == (255 * (v - l)) \div (u - l)
                    IN  /\ v <= l => y = 0
                        /\ v > u => y = 255
                        /\ l < v /\ v <= u =>
                              /\ y \in {e - 1, e}
                              /\ (255 * (v - l)) % (u - l) # 0 => y = e
                        /\ l = 50 /\ u = 200 /\ v = 200 => y = 255
                        /\ l = 0 /\ u = 7 /\ v = 7 => y = 254
    /\ PreviewLevelsOnly =>
          LET l == enhanced.s_preview.lower_limit
              u == enhanced.s_preview.upper_limit
          IN  /\ NonDecreasing(image_in.image, enhanced.preview)
              /\ \A p \in Channels(image_in.image) :
                    LET v == image_in.image[p[1]][p[2]]
                        y == enhanced.preview[p[1]][p[2]]
                    IN  /\ v <= l => y = 0
                        /\ v >= u => y = 255
                        /\ l < v /\ v < u => y = (255 * (v - l)) \div (u - l)
    /\ CameraLevelsOnly /\ PreviewLevelsOnly /\ SameLimits =>
          \A p \in Channels(image_in.image) :
              /\ enhanced.camera[p[1]][p[2]] <= enhanced.preview[p[1]][p[2]]
              /\ enhanced.preview[p[1]][p[2]] <= enhanced.camera[p[1]][p[2]] + 1

\* the ramp went through the levels stage of both functions with limits 0 and
\* 7, and the two results differ
C12_Witness ==
    /\ CameraLevelsOnly /\ PreviewLevelsOnly /\ SameLimits
    /\ image_in.image = Ramp
    /\ enhanced.s_camera.lower_limit = 0 /\ enhanced.s_camera.upper_limit = 7
    /\ enhanced.camera # enhanced.preview


-----------------------------------------------------------------------------
(* The motor *)

RECURSIVE SumSeq(_)
SumSeq(q) == IF q = <<>> THEN 0 ELSE q[Len(q)] + SumSeq(SubSeq(q, 1, Len(q) - 1))

Abs(n) == IF n < 0 THEN -n ELSE n

\* C13, amended: every call of Motor.rotation commands one move, of
\* round(gearRatio * degrees / 360.0, 2) revolutions: the hundredths nearest to
\* 5 * degrees / 360.  For 36 degrees that is 0.5 revolutions.
C13_HalfARevolution ==
    /\ Len(revs_log) = Len(rot_log)
    /\ \A i \in 1..Len(rot_log) :
          /\ Abs(720 * rot_log[i].den * revs_log[i] - 1000 * rot_log[i].num)
                <= 360 * rot_log[i].den
          /\ rot_log[i] = [num |-> 36, den |-> 1] => revs_log[i] = 50

\* C13 as stated: a rotation by 36 degrees commands 1.8 revolutions
C13_Example ==
    \A i \in 1..Len(rot_log) :
        i <= Len(revs_log) /\ rot_log[i] = [num |-> 36, den |-> 1]
            => revs_log[i] = 180

\* a caller rotated by 36 degrees
C13_Witness ==
    \E i \in 1..Len(rot_log) :
        /\ rot_log[i] = [num |-> 36, den |-> 1]
        /\ i <= Len(revs_log)
        /\ revs_log[i] = 50

\* C19: once the worker has commanded the num_images moves of a turn, their
\* sum differs from gearRatio = 5 revolutions by at most 0.005 * num_images;
\* in hundredths of a revolution, twice the difference is at most num_images
C19_TurnAddsUp ==
    pc = "rotation" /\ image = num_images =>
        /\ Len(revs_log) = num_images
        /\ 2 * Abs(SumSeq(revs_log) - 500) <= num_images

\* a turn in 8 moves of 0.62 revolutions: 4.96 revolutions, off by 0.005 * 8
C19_Witness ==
    /\ pc = "rotation" /\ image = num_images
    /\ num_images = 8
    /\ SumSeq(revs_log) = 496


-----------------------------------------------------------------------------
(* The still capture *)

\* C14: capture_enhanced waits once for every camera, immediately before the
\* capture of that camera: the k-th wait is for the camera of the k-th capture,
\* and while the device is asked for a frame the last wait was for that camera.
\* A wait lasts (delay + 1) = 6 times the exposure the controller tracks for
\* that same camera at that moment, in microseconds.
C14_WaitBeforeCapture ==
    /\ Len(wait_log) = Len(cap_log) + (IF pc = "capture_array" THEN 1 ELSE 0)
    /\ \A k \in 1..Len(cap_log) : wait_log[k].cam = cap_log[k].cam
    /\ pc = "capture_array" => wait_log[Len(wait_log)].cam = Head(cams_left)
    /\ \A k \in 1..Len(wait_log) :
          /\ wait_log[k].exposure_us = wait_log[k].tracked[wait_log[k].cam]
          /\ wait_log[k].slept_us = 6 * wait_log[k].exposure_us

\* both cameras were captured, each after a wait of its own exposure, and the
\* two exposures differ
C14_Witness ==
    /\ Len(cap_log) = 2
    /\ Len(wait_log) = 2
    /\ wait_log[1].cam = 0 /\ wait_log[2].cam = 1
    /\ wait_log[1].slept_us = 6 * 20000
    /\ wait_log[2].slept_us = 6 * 3000
    /\ wait_log[2].tracked[0] = 20000

\* C17 as stated: when the enhancement of a captured frame raised, the frame
\* is written as it came and the capture is not recorded as missing
C17_EnhancementErrorKeepsFrame ==
    /\ pc = "for_cam"
    /\ cap_log # <<>>
    /\ image_in # <<>>
    /\ enhanced.raised # "None"
    => cap_log[Len(cap_log)].result = "saved"

\* C20 as stated: the exposure a wait was computed from is the exposure the
\* device of that camera was set to
C20_DelayUsesDeviceExposure ==
    \A k \in 1..Len(wait_log) : wait_log[k].exposure_us = wait_log[k].device_us


\* C15 as stated: while the GUI thread reads a preview frame from a camera,
\* the worker is not inside a still capture on that camera
C15_PreviewAndStillExclusive ==
    feed # <<>> => Head(feed) \notin capturing


\* C16 as stated: Auto Levels sets the limits and leaves the 'enabled' flag as
\* it was: after the handler, the checkbox of the widget and the flag of its
\* camera are what the checkbox was before
C16_AutoLevelsKeepsEnabled ==
    last_call.op = "on_auto_levels" =>
        LET c == last_call.arg.ids[1]
        IN  /\ widgets[c].enabled = last_call.settings.enabled
            /\ enhancement_settings[c].enabled = last_call.settings.enabled


\* C18 as stated: when a device can be opened, whichever it is, the
\* construction raises nothing and configures the devices that can be opened
C18_OneCameraIsEnough ==
    /\ last_call.op = "__init__"
    /\ \E i \in CameraIds : last_call.settings[i] = "opened"
    => /\ last_call.raised = "None"
       /\ cameras = {i \in CameraIds : last_call.settings[i] = "opened"}



\* C23 as stated: a frame the preview shows went through at most one
\* enhancement pass (a call that found the enhancement enabled) between the
\* read from the camera and the display
C23_PreviewEnhancedOnce ==
    /\ image_in # <<>>
    /\ enhanced.n_preview = 1
    => (enhanced.n_camera - enhanced.off_camera)
         + (enhanced.n_preview - enhanced.off_preview) <= 1



\* C24: no camera is inside a still capture while its stream is stopped, and
\* once closeEvent has stopped the streams and switched the light off (the
\* window is closed) the worker is not running and no camera is inside a
\* still capture; in wait() the streams are still started
C24_StopAfterWorker ==
    /\ \A c \in capturing : picam[c].started
    /\ gui = "closeEvent" => \A c \in cameras : picam[c].started
    /\ gui = "closed" => ~Running /\ capturing = {}

\* the window was closed during the first frame of a sequence, the worker
\* still captured every frame of it, and the streams were stopped afterwards
C24_Witness ==
    /\ gui = "closed"
    /\ quit_at = 0
    /\ num_images = 2
    /\ pc = "finished"
    /\ Len(cap_log) >= 2
    /\ \A c \in cameras : ~picam[c].started



\* run() of the worker the window started has ended, by a return or by an
\* exception
SequenceEnded == capture_thread # "None" /\ pc \in {"finished", "raised"}

\* C22 as stated: once a started sequence has ended, for whatever reason, and
\* the window is running, the start control is eventually enabled again
\* (unless the window stops running)
C22_StartEnabledAgain ==
    [](SequenceEnded /\ gui = "running"
         => <>(start_capture_btn \/ gui # "running"))


\* C21 as stated: the values the stages of an enhanced still were computed
\* with are those of one dict the camera held while the frame was enhanced,
\* never a mixture of two
C21_OneSettingsRecord ==
    /\ image_in # <<>>
    /\ ~IsEnhanceStmt(pc)
    /\ enhanced.n_camera = 1
    /\ enhanced.off_camera = 0
    /\ enhanced.held # <<>>
    => \E i \in 1..Len(enhanced.held) : enhanced.s_camera = enhanced.held[i]

====
